---- MODULE Spec2Model ----
(***************************************************************************)
(* A model of vibe-janitor's Cleaner (core/cleaner.ts): the project        *)
(* loader, the unused import / variable / function / file analyses, the    *)
(* file-protection predicate and the clean() run that rewrites and deletes *)
(* files.                                                                  *)
(*                                                                         *)
(* Strings are tuples of one-character strings, so that the string tests   *)
(* of the code (includes, startsWith, endsWith, toLowerCase, \b word       *)
(* matching) are computed character by character.  A path is the tuple of  *)
(* its segments: /p/src/a.ts is << <<"p">>, <<"s","r","c">>, ... >>.       *)
(***************************************************************************)
EXTENDS Integers, Sequences, FiniteSets, TLC

VARIABLES
    disk,       \* the file system: [path -> content] of the files that exist
    manifest,   \* <<>> when the project has no package.json, else <<[main, bin]>>
    options,    \* the CleanerOptions of the run configuration
    cleaner,    \* "none" before a Cleaner is constructed, then "ready"
    project,    \* the ts-morph Project of the Cleaner: [path -> content in memory]
    log,        \* one record per finished clean() call, oldest first
    cli,        \* the command-line process: its position, flags and outcome
    style,      \* the stylesheets and texts a StyleCleaner works on, and its runs
    sweeper,   \* the asset files and source text an AssetSweeper works on, and its runs
    logger    \* the static fields of Logger, the interval timers and a runWithProgress call

vars == <<disk, manifest, options, cleaner, project, log, cli, style, sweeper, logger>>

----------------------------------------------------------------------------
(* Strings *)

\* String.prototype.startsWith
StartsWith(s, p) == Len(p) <= Len(s) /\ SubSeq(s, 1, Len(p)) = p

\* String.prototype.endsWith
EndsWith(s, p) == Len(p) <= Len(s) /\ SubSeq(s, Len(s) - Len(p) + 1, Len(s)) = p

\* String.prototype.includes
Includes(s, p) == \E i \in 0..(Len(s) - Len(p)) : SubSeq(s, i + 1, i + Len(p)) = p

UpperCaseLetters == <<"A","B","C","D","E","F","G","H","I","J","K","L","M","N","O","P","Q","R","S","T","U","V","W","X","Y","Z">>

LowerCaseLetters == <<"a","b","c","d","e","f","g","h","i","j","k","l","m","n","o","p","q","r","s","t","u","v","w","x","y","z">>

Digits == <<"0","1","2","3","4","5","6","7","8","9">>

LowerChar(c) ==
    IF \E i \in 1..26 : UpperCaseLetters[i] = c
    THEN LowerCaseLetters[CHOOSE i \in 1..26 : UpperCaseLetters[i] = c]
    ELSE c

\* String.prototype.toLowerCase
ToLowerCase(s) == [i \in 1..Len(s) |-> LowerChar(s[i])]

\* filePath.replace(/\\/g, '/')
SlashNormalize(s) == [i \in 1..Len(s) |-> IF s[i] = "\\" THEN "/" ELSE s[i]]

\* The characters the regular expression class \w matches.
IsWordChar(c) ==
    \/ \E i \in 1..26 : c = UpperCaseLetters[i] \/ c = LowerCaseLetters[i]
    \/ \E i \in 1..10 : c = Digits[i]
    \/ c = "_"

\* \b at the gap after position i of s (0 <= i <= Len(s)): exactly one of the
\* two neighbouring characters is a word character.
WordBoundary(s, i) ==
    LET before == i >= 1 /\ IsWordChar(s[i])
        after  == i < Len(s) /\ IsWordChar(s[i + 1])
    IN  before # after

\* The number of matches of new RegExp(`\\b${name}\\b`, 'g') in the text s.
\* (name is made of characters that need no escaping.)
WordMatches(name, s) ==
    IF Len(name) = 0 THEN 0
    ELSE Cardinality({i \in 0..(Len(s) - Len(name)) :
                        /\ SubSeq(s, i + 1, i + Len(name)) = name
                        /\ WordBoundary(s, i)
                        /\ WordBoundary(s, i + Len(name))})

RECURSIVE SumSeq(_)
SumSeq(ns) == IF ns = <<>> THEN 0 ELSE Head(ns) + SumSeq(Tail(ns))

RECURSIVE Flatten(_)
Flatten(ss) == IF ss = <<>> THEN <<>> ELSE Head(ss) \o Flatten(Tail(ss))

Range(s) == {s[i] : i \in 1..Len(s)}

----------------------------------------------------------------------------
(* Paths (node:path, POSIX) *)

\* path.basename
Basename(p) == IF p = <<>> THEN <<>> ELSE p[Len(p)]

\* path.dirname
Dirname(p) == SubSeq(p, 1, Len(p) - 1)

\* The path as the string the code sees: "/" before every segment.
RECURSIVE PathString(_)
PathString(p) == IF p = <<>> THEN <<>> ELSE <<"/">> \o Head(p) \o PathString(Tail(p))

\* path.extname: from the last "." of the basename, "" when there is none or
\* when the only "." is the first character.
Extname(p) ==
    LET base == Basename(p)
        dots == {i \in 1..Len(base) : base[i] = "."}
        last == CHOOSE i \in dots : \A j \in dots : j <= i
    IN  IF dots = {} \/ last = 1 THEN <<>>
        ELSE SubSeq(base, last, Len(base))

\* path.resolve(dir, relative): "." and "" segments vanish, ".." pops.
RECURSIVE Normalize(_, _)
Normalize(done, segs) ==
    IF segs = <<>> THEN done
    ELSE LET s == Head(segs) IN
         IF s = <<".">> \/ s = <<>> THEN Normalize(done, Tail(segs))
         ELSE IF s = <<".", ".">>
              THEN Normalize(SubSeq(done, 1, Len(done) - 1), Tail(segs))
              ELSE Normalize(Append(done, s), Tail(segs))

\* path.join(p, name)
Join(p, name) == Append(p, name)

\* `${path}${ext}`
WithExt(p, ext) ==
    IF p = <<>> THEN <<ext>>
    ELSE [p EXCEPT ![Len(p)] = p[Len(p)] \o ext]

\* path.relative(from, to), as a string: ".." out of what is left of from
\* after the common prefix, then what is left of to.
RelativeString(from, to) ==
    LET same(k) == k <= Len(from) /\ k <= Len(to)
                   /\ SubSeq(from, 1, k) = SubSeq(to, 1, k)
        common == CHOOSE k \in 0..Len(from) :
                     same(k) /\ \A j \in 0..Len(from) : same(j) => j <= k
        ups  == [i \in 1..(Len(from) - common) |-> <<".", ".">>]
        segs == ups \o SubSeq(to, common + 1, Len(to))
        str  == PathString(segs)
    IN  IF segs = <<>> THEN <<>> ELSE Tail(str)

\* String.prototype.split(sep) for a one-character separator.
RECURSIVE SplitFrom(_, _, _)
SplitFrom(s, sep, cur) ==
    IF s = <<>> THEN <<cur>>
    ELSE IF Head(s) = sep THEN <<cur>> \o SplitFrom(Tail(s), sep, <<>>)
         ELSE SplitFrom(Tail(s), sep, Append(cur, Head(s)))

Split(s, sep) == SplitFrom(s, sep, <<>>)

----------------------------------------------------------------------------
(* The project *)

\* The directory the Cleaner is constructed for (this.targetDir); the CLI
\* passes path.resolve(directory), an absolute normalized path.
TargetDir == <<<<"p">>>>

\* Whether a file or a directory exists at path p (fs.existsSync).
ExistsSync(d, p) ==
    \/ p \in DOMAIN d
    \/ \E f \in DOMAIN d : Len(p) < Len(f) /\ SubSeq(f, 1, Len(p)) = p

\* Whether a regular file exists at path p.
IsFile(d, p) == p \in DOMAIN d

----------------------------------------------------------------------------
(* Cleaner.isFileProtected *)

SpecialDirs ==
    { <<"n","o","d","e","_","m","o","d","u","l","e","s">>, <<"d","i","s","t">>, <<"b","u","i","l","d">>, <<".","g","i","t">>, <<"d","o","c","s">>, <<"e","x","a","m","p","l","e","s">>,
      <<"s","c","r","i","p","t","s">>, <<"p","u","b","l","i","c">>, <<"s","t","a","t","i","c">>, <<".","n","e","x","t">>, <<".","n","u","x","t">>, <<".","o","u","t","p","u","t">>,
      <<"o","u","t">>, <<".","v","e","r","c","e","l">> }

FrameworkPatterns == { <<"/","p","a","g","e","s","/">>, <<"/","s","r","c","/","p","a","g","e","s","/">>, <<"/","a","p","p","/">>, <<"/","s","r","c","/","a","p","p","/">> }

IsTestFile(fileName, dirName) ==
    \/ Includes(fileName, <<"t","e","s","t",".">>)
    \/ Includes(fileName, <<"s","p","e","c",".">>)
    \/ Includes(fileName, <<"j","e","s","t",".">>)
    \/ Includes(fileName, <<"t","e","s","t","-">>)
    \/ Includes(dirName, <<"/","t","e","s","t">>)
    \/ Includes(dirName, <<"/","t","e","s","t","s">>)
    \/ Includes(dirName, <<"/","_","_","t","e","s","t","s","_","_">>)
    \/ Includes(dirName, <<"/","_","_","m","o","c","k","s","_","_">>)
    \/ Includes(dirName, <<"/","f","i","x","t","u","r","e","s">>)
    \/ Includes(dirName, <<"/","m","o","c","k","s">>)

IsDeclarationFile(fileName, fileExt) ==
    EndsWith(fileName, <<".","d",".","t","s">>) \/ fileExt = <<".","d",".","t","s">>

IsConfigFile(fileName) ==
    \/ fileName = <<"p","a","c","k","a","g","e",".","j","s","o","n">>
    \/ fileName = <<"t","s","c","o","n","f","i","g",".","j","s","o","n">>
    \/ fileName = <<"j","e","s","t",".","c","o","n","f","i","g",".","j","s">>
    \/ fileName = <<".","e","s","l","i","n","t","r","c",".","j","s">>
    \/ fileName = <<".","p","r","e","t","t","i","e","r","r","c">>
    \/ StartsWith(fileName, <<".">>)
    \/ EndsWith(fileName, <<"r","c">>)
    \/ EndsWith(fileName, <<"r","c",".","j","s">>)
    \/ EndsWith(fileName, <<"r","c",".","j","s","o","n">>)

IsDocumentationFile(fileName, fileExt) ==
    \/ fileExt = <<".","m","d">>
    \/ fileExt = <<".","m","d","x">>
    \/ fileName = <<"l","i","c","e","n","s","e">>
    \/ fileName = <<"c","h","a","n","g","e","l","o","g">>
    \/ fileName = <<"c","o","n","t","r","i","b","u","t","i","n","g">>

InSpecialDir(normalizedPath) ==
    LET dirParts == Range(Split(normalizedPath, "/"))
    IN  \E dir \in SpecialDirs : dir \in dirParts

InFrameworkDir(normalizedPath) ==
    \E pattern \in FrameworkPatterns : Includes(normalizedPath, pattern)

InRootDirectory(filePath) == Dirname(filePath) = TargetDir

RelativePathProtected(relativePath) ==
    \/ StartsWith(relativePath, <<"n","o","d","e","_","m","o","d","u","l","e","s">>)
    \/ StartsWith(relativePath, <<"d","i","s","t">>)
    \/ StartsWith(relativePath, <<"b","u","i","l","d">>)
    \/ StartsWith(relativePath, <<".","g","i","t">>)
    \/ StartsWith(relativePath, <<"p","u","b","l","i","c">>)
    \/ StartsWith(relativePath, <<"s","t","a","t","i","c">>)
    \/ Includes(relativePath, <<"/","d","o","c","s">>)
    \/ Includes(relativePath, <<"/","e","x","a","m","p","l","e","s">>)
    \/ Includes(relativePath, <<"/","s","c","r","i","p","t","s">>)
    \/ Includes(relativePath, <<"/","p","u","b","l","i","c">>)
    \/ Includes(relativePath, <<"/","s","t","a","t","i","c">>)

isFileProtected(filePath) ==
    LET fileName == ToLowerCase(Basename(filePath))
        fileExt  == ToLowerCase(Extname(filePath))
        dirName  == PathString(Dirname(filePath))
        normalizedPath == SlashNormalize(ToLowerCase(PathString(filePath)))
        relativePath == ToLowerCase(RelativeString(TargetDir, filePath))
    IN  \/ IsTestFile(fileName, dirName)
        \/ IsDeclarationFile(fileName, fileExt)
        \/ IsConfigFile(fileName)
        \/ IsDocumentationFile(fileName, fileExt)
        \/ InSpecialDir(normalizedPath)
        \/ InFrameworkDir(normalizedPath)
        \/ InRootDirectory(filePath)
        \/ RelativePathProtected(relativePath)

----------------------------------------------------------------------------
(* Cleaner.addFilesToProject: the glob *)

SourceExtensions == { <<".","t","s">>, <<".","t","s","x">>, <<".","j","s">>, <<".","j","s","x">> }

IgnoredDirs == { <<"n","o","d","e","_","m","o","d","u","l","e","s">>, <<"d","i","s","t">>, <<"b","u","i","l","d">>, <<"p","u","b","l","i","c">> }

\* fast-glob with cwd targetDir, patterns **/*.ts, **/*.tsx, **/*.js, **/*.jsx
\* and the ignore list; "*" and "**" match no name that starts with ".".
GlobMatches(filePath) ==
    LET n   == Len(TargetDir)
        rel == SubSeq(filePath, n + 1, Len(filePath))
        dirs == SubSeq(rel, 1, Len(rel) - 1)
        base == Basename(filePath)
    IN  /\ Len(filePath) > n
        /\ SubSeq(filePath, 1, n) = TargetDir
        /\ \E ext \in SourceExtensions : EndsWith(base, ext)
        /\ \A i \in 1..Len(rel) : ~StartsWith(rel[i], <<".">>)
        /\ \A i \in 1..Len(dirs) : dirs[i] \notin IgnoredDirs
        /\ ~EndsWith(base, <<".","d",".","t","s">>)

----------------------------------------------------------------------------
(* Source files as ts-morph presents them: a sequence of top-level          *)
(* statements.  Every statement is a record of the same shape; NoName is   *)
(* the absent name.  The raw text of a file (getText) is the sequence of   *)
(* its identifier and string tokens, which the text separates by           *)
(* characters that are no word characters; keywords and punctuation are    *)
(* left out, and no name of the catalogue below is a keyword.              *)

NoName == <<>>

Named(n) == [name |-> n, alias |-> NoName]

\* import <def>, { <named> } from '<spec>'  /  import * as <ns> from '<spec>'
ImportDecl(named, def, ns, spec) ==
    [kind |-> "import", named |-> named, def |-> def, ns |-> ns, spec |-> spec,
     name |-> NoName, exported |-> FALSE, inLoop |-> FALSE, refs |-> <<>>,
     methods |-> <<>>]

\* [export] const <name> = <refs>   (one declarator per statement), or the
\* declaration of a for / for-of / for-in loop when inLoop
VariableDecl(name, exported, inLoop, refs) ==
    [kind |-> "var", named |-> <<>>, def |-> NoName, ns |-> NoName, spec |-> <<>>,
     name |-> name, exported |-> exported, inLoop |-> inLoop, refs |-> refs,
     methods |-> <<>>]

\* [export] function <name>() { <refs> }
FunctionDecl(name, exported, refs) ==
    [kind |-> "func", named |-> <<>>, def |-> NoName, ns |-> NoName, spec |-> <<>>,
     name |-> name, exported |-> exported, inLoop |-> FALSE, refs |-> refs,
     methods |-> <<>>]

\* A method: modifier is "public", "private", "get" or "set".
Method(name, modifier, refs) == [name |-> name, modifier |-> modifier, refs |-> refs]

\* [export] class <name> { <methods> }
ClassDecl(name, exported, methods) ==
    [kind |-> "class", named |-> <<>>, def |-> NoName, ns |-> NoName, spec |-> <<>>,
     name |-> name, exported |-> exported, inLoop |-> FALSE, refs |-> <<>>,
     methods |-> methods]

\* Any other statement, by the identifiers it mentions.
Code(refs) ==
    [kind |-> "code", named |-> <<>>, def |-> NoName, ns |-> NoName, spec |-> <<>>,
     name |-> NoName, exported |-> FALSE, inLoop |-> FALSE, refs |-> refs,
     methods |-> <<>>]

NameToken(n) == IF n = NoName THEN <<>> ELSE <<n>>

NamedTokens(named) ==
    Flatten([i \in 1..Len(named) |->
                NameToken(named[i].name) \o NameToken(named[i].alias)])

MethodTokens(methods) ==
    Flatten([i \in 1..Len(methods) |-> NameToken(methods[i].name) \o methods[i].refs])

StatementTokens(st) ==
    IF st.kind = "import"
    THEN NamedTokens(st.named) \o NameToken(st.def) \o NameToken(st.ns) \o <<st.spec>>
    ELSE IF st.kind = "class"
         THEN NameToken(st.name) \o MethodTokens(st.methods)
         ELSE NameToken(st.name) \o st.refs

\* sourceFile.getText(), as its tokens.
getText(content) == Flatten([i \in 1..Len(content) |-> StatementTokens(content[i])])

\* (text.match(new RegExp(`\\b${name}\\b`, 'g')) ?? []).length
Occurrences(name, text) ==
    SumSeq([i \in 1..Len(text) |-> WordMatches(name, text[i])])

\* stats.size: every token and the character that separates it from the next.
FileSize(content) ==
    LET text == getText(content)
    IN  SumSeq([i \in 1..Len(text) |-> Len(text[i]) + 1])

----------------------------------------------------------------------------
(* The files a project tree is drawn from, in the order the loader finds  *)
(* them, and what each holds when the run starts.                          *)

File_a     == <<<<"p">>, <<"s","r","c">>, <<"l","i","b">>, <<"a",".","t","s">>>>
File_b     == <<<<"p">>, <<"s","r","c">>, <<"l","i","b">>, <<"b",".","t","s">>>>
File_c     == <<<<"p">>, <<"s","r","c">>, <<"l","i","b">>, <<"c",".","t","s">>>>
File_utils == <<<<"p">>, <<"s","r","c">>, <<"l","i","b">>, <<"u","t","i","l","s">>, <<"i","n","d","e","x",".","t","s">>>>
File_mock  == <<<<"p">>, <<"s","r","c">>, <<"l","i","b">>, <<"a","p","i",".","m","o","c","k",".","t","s">>>>
File_test  == <<<<"p">>, <<"s","r","c">>, <<"l","i","b">>, <<"b",".","t","e","s","t",".","t","s">>>>
File_root  == <<<<"p">>, <<"i","n","d","e","x",".","t","s">>>>
File_dist  == <<<<"p">>, <<"d","i","s","t">>, <<"i","n","d","e","x",".","j","s">>>>

Catalogue ==
    <<File_a, File_b, File_c, File_utils, File_mock, File_test, File_root, File_dist>>

\* What each file of the catalogue holds when the run starts.
InitialContent(f) ==
    CASE f = File_a ->
           \* import { x, y } from './b';  function f() { x }
           << ImportDecl(<<Named(<<"x">>), Named(<<"y">>)>>, NoName, NoName, <<".","/","b">>),
              FunctionDecl(<<"f">>, FALSE, <<<<"x">>>>) >>
      [] f = File_b ->
           \* import a from './a';  export const x = a;  export const y = 1;
           << ImportDecl(<<>>, <<"a">>, NoName, <<".","/","a">>),
              VariableDecl(<<"x">>, TRUE, FALSE, <<<<"a">>>>),
              VariableDecl(<<"y">>, TRUE, FALSE, <<>>) >>
      [] f = File_c ->
           \* import * as u from './utils';  import A from './a';  const v = 1;
           \* const {k} = A;  for (const i of u) {}  u(A);
           << ImportDecl(<<>>, NoName, <<"u">>, <<".","/","u","t","i","l","s">>),
              ImportDecl(<<>>, <<"A">>, NoName, <<".","/","a">>),
              VariableDecl(<<"v">>, FALSE, FALSE, <<>>),
              VariableDecl(<<"{","k","}">>, FALSE, FALSE, <<<<"A">>>>),
              VariableDecl(<<"i">>, FALSE, TRUE, <<<<"u">>>>),
              Code(<<<<"u">>, <<"A">>>>) >>
      [] f = File_utils ->
           \* import { w } from 'lib';  export function util() {}
           \* export class Svc { run() {} }
           << ImportDecl(<<Named(<<"w">>)>>, NoName, NoName, <<"l","i","b">>),
              FunctionDecl(<<"u","t","i","l">>, TRUE, <<>>),
              ClassDecl(<<"S","v","c">>, TRUE, <<Method(<<"r","u","n">>, "public", <<>>)>>) >>
      [] f = File_mock ->
           \* import * as n from 'pkg';
           \* class Api { constructor() {}  fetch() {}  private init() {}  get size() {} }
           \* export default new Api();
           << ImportDecl(<<>>, NoName, <<"n">>, <<"p","k","g">>),
              ClassDecl(<<"A","p","i">>, FALSE,
                        <<Method(<<"c","o","n","s","t","r","u","c","t","o","r">>, "public", <<>>),
                          Method(<<"f","e","t","c","h">>, "public", <<>>),
                          Method(<<"i","n","i","t">>, "private", <<>>),
                          Method(<<"s","i","z","e">>, "get", <<>>)>>),
              Code(<<<<"A","p","i">>>>) >>
      [] f = File_test ->
           \* import { x, z } from './b';  expect(x);
           << ImportDecl(<<Named(<<"x">>), Named(<<"z">>)>>, NoName, NoName, <<".","/","b">>),
              Code(<<<<"e","x","p","e","c","t">>, <<"x">>>>) >>
      [] f = File_root ->
           \* import c from './src/lib/c';  import D, { q as r } from 'pkg';  c();
           << ImportDecl(<<>>, <<"c">>, NoName, <<".","/","s","r","c","/","l","i","b","/","c">>),
              ImportDecl(<<[name |-> <<"q">>, alias |-> <<"r">>]>>, <<"D">>, NoName, <<"p","k","g">>),
              Code(<<<<"c">>>>) >>
      [] f = File_dist ->
           \* module.exports = main;
           << Code(<<<<"m","o","d","u","l","e">>, <<"e","x","p","o","r","t","s">>, <<"m","a","i","n">>>>) >>

\* The paths of S in the loader's order (project.getSourceFiles()).
InOrder(S) == SelectSeq(Catalogue, LAMBDA f : f \in S)

\* package.json: main is a string or NoName; bin is the sequence of the
\* paths it names (the string, or the values of the name-to-path mapping).
Manifest(main, binKind, bin) ==
    [main |-> main, binKind |-> binKind, bin |-> bin, parses |-> TRUE]

\* A package.json whose text is not JSON: fs.readJsonSync throws on it, and
\* no field of it is read.
Malformed == [main |-> NoName, binKind |-> "none", bin |-> <<>>, parses |-> FALSE]

Manifests ==
    { Manifest(<<"d","i","s","t","/","i","n","d","e","x",".","j","s">>, "none", <<>>),
      Manifest(<<".","/","s","r","c","/","l","i","b","/","c",".","t","s">>, "string", <<<<"s","r","c","/","l","i","b","/","a",".","t","s">>>>),
      Manifest(NoName, "object", <<<<"s","r","c","/","l","i","b","/","u","t","i","l","s","/","i","n","d","e","x",".","t","s">>, <<".","/","s","r","c","/","l","i","b","/","a","p","i",".","m","o","c","k",".","t","s">>>>),
      Manifest(<<"s","r","c","/","l","i","b","/","b",".","t","s",".","b","a","k">>, "none", <<>>) }

----------------------------------------------------------------------------
(* What depends on a path alone, computed once for the paths of the       *)
(* catalogue.                                                              *)

\* The paths for which isFileProtected returns true.
ProtectedFiles == {f \in Range(Catalogue) : isFileProtected(f)}

\* The paths the patterns of the loader match.
GlobFiles == {f \in Range(Catalogue) : GlobMatches(f)}

\* glob(patterns, { cwd: targetDir, absolute: true, ignore })
Glob(d) == (DOMAIN d) \cap GlobFiles

\* The manifests of a run: <<>> when the project has no package.json.
ManifestChoices == {<<>>, <<Malformed>>} \cup {<<m>> : m \in Manifests}

\* filePath as the string the code holds.
FilePath == [f \in Range(Catalogue) |-> PathString(f)]

----------------------------------------------------------------------------
(* Cleaner.findUnusedImports *)

\* The analysis of one import declaration without its default-import and
\* namespace-import parts.
UnusedImportsOfDeclaration_namedOnly(importDecl, text) ==
    LET unusedNamed == SelectSeq(importDecl.named,
                           LAMBDA n : n.alias = NoName
                                      /\ Occurrences(n.name, text) <= 1)
    IN  [i \in 1..Len(unusedNamed) |-> unusedNamed[i].name]

\* The unused bindings of one import declaration: named imports first (those
\* with an alias are skipped), then the default import, then the namespace
\* import; each is unused when its name matches at most once in the text.
UnusedImportsOfDeclaration(importDecl, text) ==
    LET unusedNamed == SelectSeq(importDecl.named,
                           LAMBDA n : n.alias = NoName
                                      /\ Occurrences(n.name, text) <= 1)
        named == [i \in 1..Len(unusedNamed) |-> unusedNamed[i].name]
        default == IF importDecl.def # NoName /\ Occurrences(importDecl.def, text) <= 1
                   THEN <<importDecl.def>> ELSE <<>>
        namespace == IF importDecl.ns # NoName /\ Occurrences(importDecl.ns, text) <= 1
                     THEN <<importDecl.ns>> ELSE <<>>
    IN  named \o default \o namespace

UnusedImportsOfFile(content) ==
    LET text == getText(content)
    IN  Flatten([i \in 1..Len(content) |->
                    IF content[i].kind = "import"
                    THEN UnusedImportsOfDeclaration(content[i], text)
                    ELSE <<>>])

findUnusedImports(proj) ==
    LET files == InOrder(DOMAIN proj)
        found == [i \in 1..Len(files) |->
                     [file |-> files[i], imports |-> UnusedImportsOfFile(proj[files[i]])]]
    IN  SelectSeq(found, LAMBDA entry : entry.imports # <<>>)

----------------------------------------------------------------------------
(* Cleaner.findUnusedVariables *)

\* The test without its look at the modifiers.
hasExportModifier_never(varDecl) == FALSE

\* Node.isVariableStatement(grandparent) with an export modifier: the
\* grandparent of a loop's declaration is the loop, not a variable statement.
hasExportModifier(varDecl) == ~varDecl.inLoop /\ varDecl.exported

IsUnusedVariable(st, text) ==
    /\ st.kind = "var"
    /\ st.name # NoName
    /\ ~Includes(st.name, <<"{">>)
    /\ ~Includes(st.name, <<"[">>)
    /\ ~st.inLoop
    /\ Occurrences(st.name, text) <= 1
    /\ ~hasExportModifier(st)

UnusedVariablesOfFile(content) ==
    LET text  == getText(content)
        decls == SelectSeq(content, LAMBDA st : IsUnusedVariable(st, text))
    IN  [i \in 1..Len(decls) |-> decls[i].name]

findUnusedVariables(proj) ==
    LET files == InOrder(DOMAIN proj)
        found == [i \in 1..Len(files) |->
                     [file |-> files[i], variables |-> UnusedVariablesOfFile(proj[files[i]])]]
    IN  SelectSeq(found, LAMBDA entry : entry.variables # <<>>)

----------------------------------------------------------------------------
(* Cleaner.findUnusedFunctions *)

IsUnusedFunction(st, text) ==
    /\ st.kind = "func"
    /\ st.name # NoName
    /\ Occurrences(st.name, text) <= 1
    /\ ~st.exported

\* The test that skips no method.
IsSkippedMethod_none(method) == FALSE

\* Private methods, getters, setters and the constructor are skipped.
IsSkippedMethod(method) ==
    \/ method.modifier = "private"
    \/ method.modifier = "get"
    \/ method.modifier = "set"
    \/ method.name = <<"c","o","n","s","t","r","u","c","t","o","r">>

\* The entries `${className}.${methodName}` of one class.
UnusedMethodsOfClass(classDecl, text) ==
    IF classDecl.exported THEN <<>>
    ELSE LET unused == SelectSeq(classDecl.methods,
                           LAMBDA m : /\ ~IsSkippedMethod(m)
                                      /\ Occurrences(m.name, text) <= 1
                                      /\ classDecl.name # NoName)
         IN  [i \in 1..Len(unused) |-> classDecl.name \o <<".">> \o unused[i].name]

UnusedFunctionsOfFile(content) ==
    LET text  == getText(content)
        funcs == SelectSeq(content, LAMBDA st : IsUnusedFunction(st, text))
        names == [i \in 1..Len(funcs) |-> funcs[i].name]
        methods == Flatten([i \in 1..Len(content) |->
                              IF content[i].kind = "class"
                              THEN UnusedMethodsOfClass(content[i], text)
                              ELSE <<>>])
    IN  names \o methods

findUnusedFunctions(proj) ==
    LET files == InOrder(DOMAIN proj)
        found == [i \in 1..Len(files) |->
                     [file |-> files[i], functions |-> UnusedFunctionsOfFile(proj[files[i]])]]
    IN  SelectSeq(found, LAMBDA entry : entry.functions # <<>>)

----------------------------------------------------------------------------
(* Cleaner.findUnusedFiles *)

ProbeExtensions == << <<".","t","s">>, <<".","t","s","x">>, <<".","j","s">>, <<".","j","s","x">> >>

\* path.resolve(dir, str) for a path written as a string.
ResolveString(dir, str) ==
    IF StartsWith(str, <<"/">>) THEN Normalize(<<>>, Split(str, "/"))
    ELSE Normalize(dir, Split(str, "/"))

\* The paths probed when the resolved path itself does not exist, in the
\* order of the loop: for each extension <path><ext>, then <path>/index<ext>.
ProbeCandidates(resolvedPath) ==
    Flatten([i \in 1..Len(ProbeExtensions) |->
                << WithExt(resolvedPath, ProbeExtensions[i]),
                   Join(resolvedPath, <<"i","n","d","e","x">> \o ProbeExtensions[i]) >>])

\* The resolution without the probe loop: only the exact path counts.
ResolveImport_exactPathOnly(d, sourceFile, moduleSpecifier) ==
    IF ~StartsWith(moduleSpecifier, <<".">>) THEN {}
    ELSE LET resolved == ResolveString(Dirname(sourceFile), moduleSpecifier)
         IN  IF ExistsSync(d, resolved) THEN {resolved} ELSE {}

\* The path an import of moduleSpecifier in sourceFile adds to
\* referencedFiles, as a set: empty when nothing is added.
ResolveImport(d, sourceFile, moduleSpecifier) ==
    IF ~StartsWith(moduleSpecifier, <<".">>) THEN {}
    ELSE LET sourceDir == Dirname(sourceFile)
             resolved  == ResolveString(sourceDir, moduleSpecifier)
             cands     == ProbeCandidates(resolved)
             hits      == {i \in 1..Len(cands) : ExistsSync(d, cands[i])}
             first     == CHOOSE i \in hits : \A j \in hits : i <= j
             resolvedPath == IF ExistsSync(d, resolved) \/ hits = {}
                             THEN resolved ELSE cands[first]
         IN  IF ExistsSync(d, resolvedPath) THEN {resolvedPath} ELSE {}

ImportsOf(content) == SelectSeq(content, LAMBDA st : st.kind = "import")

ReferencedFiles(proj, d) ==
    UNION { UNION { ResolveImport(d, f, ImportsOf(proj[f])[i].spec) :
                        i \in 1..Len(ImportsOf(proj[f])) } : f \in DOMAIN proj }

\* mainPath.replace(/\.[^/.]+$/, '')
StripExtension(str) ==
    LET dots == {i \in 1..Len(str) : str[i] = "."}
        last == CHOOSE i \in dots : \A j \in dots : j <= i
    IN  IF dots = {} THEN str
        ELSE IF last < Len(str) /\ \A j \in (last + 1)..Len(str) : str[j] # "/"
             THEN SubSeq(str, 1, last - 1)
             ELSE str

\* findEntryPoints without its bin branches.
EntryPoints_mainOnly(mf) ==
    IF mf = <<>> \/ mf[1].main = NoName THEN {}
    ELSE LET mainPath == PathString(ResolveString(TargetDir, mf[1].main))
         IN  {mainPath, StripExtension(mainPath)}

\* entryPoints of findEntryPoints, as path strings.
EntryPoints(mf) ==
    IF mf = <<>> THEN {}
    ELSE LET pkg == mf[1]
             mainPath == PathString(ResolveString(TargetDir, pkg.main))
             main == IF pkg.main = NoName THEN {}
                     ELSE {mainPath, StripExtension(mainPath)}
             bin  == IF pkg.binKind = "none" THEN {}
                     ELSE {PathString(ResolveString(TargetDir, pkg.bin[i])) :
                             i \in 1..Len(pkg.bin)}
         IN  main \cup bin

\* importantFiles of findEntryPoints, as path strings.
ImportantFiles(d, mf) ==
    LET packageJsonPath == Join(TargetDir, <<"p","a","c","k","a","g","e",".","j","s","o","n">>)
        tsConfigPath    == Join(TargetDir, <<"t","s","c","o","n","f","i","g",".","j","s","o","n">>)
        readmePath      == Join(TargetDir, <<"R","E","A","D","M","E",".","m","d">>)
    IN  (IF mf # <<>> /\ mf[1].parses THEN {PathString(packageJsonPath)} ELSE {})
        \cup (IF ExistsSync(d, tsConfigPath) THEN {PathString(tsConfigPath)} ELSE {})
        \cup (IF ExistsSync(d, readmePath) THEN {PathString(readmePath)} ELSE {})

findUnusedFiles(proj, d, mf) ==
    LET allFiles        == InOrder(DOMAIN proj)
        referencedFiles == ReferencedFiles(proj, d)
        entryPoints     == EntryPoints(mf)
        importantFiles  == ImportantFiles(d, mf)
    IN  SelectSeq(allFiles,
            LAMBDA file : /\ file \notin referencedFiles
                          /\ FilePath[file] \notin entryPoints
                          /\ FilePath[file] \notin importantFiles
                          /\ file \notin ProtectedFiles)

\* calculateUnusedFilesSize with a loop that stops one file early.
calculateUnusedFilesSize_skippingLast(unusedFiles, d) ==
    SumSeq([i \in 1..(Len(unusedFiles) - 1) |->
               IF unusedFiles[i] \in DOMAIN d THEN FileSize(d[unusedFiles[i]]) ELSE 0])

\* Cleaner.calculateUnusedFilesSize: fs.stat throws for a path that is not on
\* disk, and such a file adds nothing.
calculateUnusedFilesSize(unusedFiles, d) ==
    SumSeq([i \in 1..Len(unusedFiles) |->
               IF unusedFiles[i] \in DOMAIN d
               THEN FileSize(d[unusedFiles[i]]) ELSE 0])

----------------------------------------------------------------------------
(* Cleaner.removeUnusedImports / removeUnusedVariables / removeUnusedFunctions *)

Contains(list, x) == \E i \in 1..Len(list) : list[i] = x

\* namedImport.remove() for every listed named import and
\* importDecl.removeDefaultImport() for a listed default import; what is left
\* of the declaration (at least: import '<spec>') stays in the file.
RemoveFromImport(importDecl, unusedImports) ==
    [importDecl EXCEPT
        !.named = SelectSeq(@, LAMBDA n : ~Contains(unusedImports, n.name)),
        !.def   = IF @ # NoName /\ Contains(unusedImports, @) THEN NoName ELSE @]

removeUnusedImports(content, unusedImports) ==
    [i \in 1..Len(content) |->
        IF content[i].kind = "import"
        THEN RemoveFromImport(content[i], unusedImports)
        ELSE content[i]]

IsRemovableVariable(st, unusedVariables) ==
    /\ st.kind = "var"
    /\ st.name # NoName
    /\ ~Includes(st.name, <<"{">>)
    /\ ~Includes(st.name, <<"[">>)
    /\ ~st.inLoop
    /\ Contains(unusedVariables, st.name)

\* varDecl.remove(): the statement goes with its only declarator.
removeUnusedVariables(content, unusedVariables) ==
    SelectSeq(content, LAMBDA st : ~IsRemovableVariable(st, unusedVariables))

\* method.remove() when unusedFunctions.includes(methodName)
RemoveMethods(classDecl, unusedFunctions) ==
    IF classDecl.exported THEN classDecl
    ELSE [classDecl EXCEPT
            !.methods = SelectSeq(@, LAMBDA m : \/ IsSkippedMethod(m)
                                                \/ ~Contains(unusedFunctions, m.name))]

removeUnusedFunctions(content, unusedFunctions) ==
    LET kept == SelectSeq(content,
                    LAMBDA st : ~(/\ st.kind = "func"
                                  /\ st.name # NoName
                                  /\ Contains(unusedFunctions, st.name)))
    IN  [i \in 1..Len(kept) |->
            IF kept[i].kind = "class" THEN RemoveMethods(kept[i], unusedFunctions)
            ELSE kept[i]]

----------------------------------------------------------------------------
(* Cleaner.clean *)

\* The most clean() calls of a behaviour.
MaxRuns == 2

\* The most operations (a read of the load, the removals of a source file,
\* sourceFile.save(), fs.remove) that throw in one behaviour.
MaxFailures == 1

\* The most files of a project tree that is not the whole catalogue.
MaxFiles == 1

\* Cleaner.addFilesToProject: project.addSourceFileAtPath(file) for every file
\* the glob finds, in its order; a file the Project already holds keeps its
\* source file in memory (it is not read again), one it does not hold is read
\* from disk.  loadFail holds the paths whose read throws: the first throw
\* leaves the forEach, and the try around the whole load catches it, so the
\* files after it are not added.
addFilesToProject(proj, d, loadFail) ==
    LET files   == InOrder(Glob(d))
        throws  == {k \in 1..Len(files) : files[k] \in loadFail \ DOMAIN proj}
        reached == IF throws = {} THEN Len(files)
                   ELSE (CHOOSE k \in throws : \A j \in throws : k <= j) - 1
        added   == {files[k] : k \in 1..reached}
    IN  [f \in (DOMAIN proj) \cup added |-> IF f \in DOMAIN proj THEN proj[f] ELSE d[f]]

\* result.<list>.find((item) => item.file === filePath), as a sequence of at
\* most one entry.
EntryFor(list, filePath) == SelectSeq(list, LAMBDA item : item.file = filePath)

\* One round of the per-file loop of clean(): the source file after the
\* removals the result asks for.
CleanSourceFile(content, filePath, opts, unusedImports, unusedVariables, unusedFunctions) ==
    LET imports == EntryFor(unusedImports, filePath)
        c1 == IF imports # <<>> THEN removeUnusedImports(content, imports[1].imports)
              ELSE content
        variables == EntryFor(unusedVariables, filePath)
        c2 == IF opts.deepScrub /\ variables # <<>>
              THEN removeUnusedVariables(c1, variables[1].variables)
              ELSE c1
        functions == EntryFor(unusedFunctions, filePath)
        c3 == IF opts.deepScrub /\ functions # <<>>
              THEN removeUnusedFunctions(c2, functions[1].functions)
              ELSE c2
    IN  c3

\* deleteUnusedFiles with deletedFiles.push(filePath) moved before the
\* fs.remove that may throw.
deleteUnusedFiles_listingFailures(unusedFiles, opts, rmFail) ==
    IF unusedFiles = <<>> \/ opts.dryRun THEN <<>>
    ELSE SelectSeq(unusedFiles, LAMBDA filePath : filePath \notin ProtectedFiles)

\* deleteUnusedFiles with the try around the loop instead of inside it: the
\* first fs.remove that throws ends the deletion.
deleteUnusedFiles_stoppingAtFailure(unusedFiles, opts, rmFail) ==
    IF unusedFiles = <<>> \/ opts.dryRun THEN <<>>
    ELSE LET throws == {k \in 1..Len(unusedFiles) :
                           /\ unusedFiles[k] \notin ProtectedFiles
                           /\ unusedFiles[k] \in rmFail}
             reached == IF throws = {} THEN Len(unusedFiles)
                        ELSE (CHOOSE k \in throws : \A j \in throws : k <= j) - 1
         IN  SelectSeq(SubSeq(unusedFiles, 1, reached),
                       LAMBDA filePath : filePath \notin ProtectedFiles)

\* Cleaner.deleteUnusedFiles: the files it removes, in order.  rmFail holds
\* the paths for which fs.remove throws.
deleteUnusedFiles(unusedFiles, opts, rmFail) ==
    IF unusedFiles = <<>> \/ opts.dryRun THEN <<>>
    ELSE SelectSeq(unusedFiles, LAMBDA filePath : /\ filePath \notin ProtectedFiles
                                                  /\ filePath \notin rmFail)

\* The guard without its dry-run test.
AppliesChanges_ignoringDryRun(opts) == opts.removeUnused

\* The guard of the rewrite loop of clean().
AppliesChanges(opts) == ~opts.dryRun /\ opts.removeUnused

\* The guard of the file deletion of clean().
DeletesFiles(opts, unusedFiles) ==
    /\ AppliesChanges(opts)
    /\ opts.deepScrub
    /\ Len(unusedFiles) > 0
    /\ (opts.deleteUnusedFiles \/ opts.removeUnused)

\* The analysis of variables, functions and files without its deepScrub test.
DeepAnalysis_always(opts) == TRUE

\* The guard of the variable, function and file analyses of clean().
DeepAnalysis(opts) == opts.deepScrub

\* new Cleaner(targetDir, options): a Project that holds no source file.
Construct ==
    /\ Len(log) < MaxRuns
    /\ cleaner' = "ready"
    /\ project' = <<>>
    /\ UNCHANGED <<disk, manifest, options, log, cli, style, sweeper, logger>>

\* The files on which an operation of clean() may throw: the first file of
\* the load, and two files that are rewritten and, when nothing is found to
\* import them, deleted.
FragileFiles == {File_a, File_utils, File_mock}

\* The reads of the load that may throw: none, or the read of one file the
\* Project does not hold yet.
LoadFailures(proj, d, budget) ==
    {{}} \cup (IF budget > 0 THEN {{f} : f \in (Glob(d) \cap FragileFiles) \ DOMAIN proj}
               ELSE {})

\* The analysis half of clean(): the load and the find* calls that fill the
\* result, and what the rewrite loop makes of every source file in memory
\* when its removals do not throw.
Analysis(proj, d, mf, opts, loadFail) ==
    LET loaded == addFilesToProject(proj, d, loadFail)
        unusedImports   == findUnusedImports(loaded)
        unusedVariables == IF DeepAnalysis(opts) THEN findUnusedVariables(loaded) ELSE <<>>
        unusedFunctions == IF DeepAnalysis(opts) THEN findUnusedFunctions(loaded) ELSE <<>>
        unusedFiles     == IF DeepAnalysis(opts) THEN findUnusedFiles(loaded, d, mf) ELSE <<>>
        unusedFilesSize == IF DeepAnalysis(opts) THEN calculateUnusedFilesSize(unusedFiles, d)
                           ELSE 0
        cleaned == [f \in DOMAIN loaded |->
                       IF AppliesChanges(opts)
                       THEN CleanSourceFile(loaded[f], f, opts, unusedImports,
                                            unusedVariables, unusedFunctions)
                       ELSE loaded[f]]
    IN  [loaded          |-> loaded,
         unusedImports   |-> unusedImports,
         unusedVariables |-> unusedVariables,
         unusedFunctions |-> unusedFunctions,
         unusedFiles     |-> unusedFiles,
         unusedFilesSize |-> unusedFilesSize,
         cleaned         |-> cleaned,
         fileModified    |-> {f \in DOMAIN loaded : cleaned[f] # loaded[f]}]

\* The operations of one clean() call that may throw besides the load:
\* rwFail, saveFail and rmFail are the paths on which the removals of the
\* rewrite loop (before they remove anything), sourceFile.save() and
\* fs.remove do.
Failures(analysis, d, opts, loadFail, budget) ==
    LET removable == IF DeletesFiles(opts, analysis.unusedFiles)
                     THEN Range(analysis.unusedFiles) \cap DOMAIN d ELSE {}
    IN  {fail \in [rwFail   : SUBSET (analysis.fileModified \cap FragileFiles),
                   saveFail : SUBSET (analysis.fileModified \cap FragileFiles),
                   rmFail   : SUBSET (removable \cap FragileFiles)] :
            /\ fail.rwFail \cap fail.saveFail = {}
            /\ Cardinality(loadFail) + Cardinality(fail.rwFail)
                  + Cardinality(fail.saveFail) + Cardinality(fail.rmFail) <= budget}

\* The modified source files whose save is recorded although it threw.
SavedFiles_unchecked(fileModified, saveFail) == fileModified

\* The source files with fileModified set whose sourceFile.save() succeeds.
SavedFiles(fileModified, saveFail) == fileModified \ saveFail

\* The rest of clean() under the given failures: the file system and the
\* Project it leaves, and the result it returns.
clean(analysis, proj, d, opts, loadFail, fail) ==
    LET modified == analysis.fileModified \ fail.rwFail
        saved    == SavedFiles(modified, fail.saveFail)
        written  == [f \in (DOMAIN d) \cup saved |->
                        IF f \in saved THEN analysis.cleaned[f] ELSE d[f]]
        deletedFiles == IF DeletesFiles(opts, analysis.unusedFiles)
                        THEN deleteUnusedFiles(analysis.unusedFiles, opts, fail.rmFail)
                        ELSE <<>>
    IN  [fresh    |-> proj = <<>>,
         before   |-> d,
         analysed |-> analysis.loaded,
         after    |-> [f \in (DOMAIN written) \ Range(deletedFiles) |-> written[f]],
         project  |-> [f \in DOMAIN analysis.loaded |->
                          IF f \in fail.rwFail THEN analysis.loaded[f]
                          ELSE analysis.cleaned[f]],
         loadFail |-> loadFail,
         rwFail   |-> fail.rwFail,
         saveFail |-> fail.saveFail,
         rmFail   |-> fail.rmFail,
         result   |-> [unusedFiles     |-> analysis.unusedFiles,
                       unusedImports   |-> analysis.unusedImports,
                       unusedVariables |-> analysis.unusedVariables,
                       unusedFunctions |-> analysis.unusedFunctions,
                       modifiedFiles   |-> InOrder(saved),
                       deletedFiles    |-> deletedFiles,
                       unusedFilesSize |-> analysis.unusedFilesSize]]

\* The runs clean() can make under one outcome of the load.
RunsAfterLoad(proj, d, mf, opts, loadFail, budget) ==
    LET analysis == Analysis(proj, d, mf, opts, loadFail)
    IN  {clean(analysis, proj, d, opts, loadFail, fail) :
            fail \in Failures(analysis, d, opts, loadFail, budget)}

\* The runs clean() can make of the current state, one per choice of at most
\* budget failures.
Runs(proj, d, mf, opts, budget) ==
    UNION {RunsAfterLoad(proj, d, mf, opts, loadFail, budget) :
              loadFail \in LoadFailures(proj, d, budget)}

\* The operations that threw in the runs so far.
\* What a clean() call logs with Logger.error, whatever the verbose option
\* is: the failure of the load with the message of the read that threw, and
\* every rewrite, save and removal that threw with the path of its file.
\* The catch blocks of findUnusedFiles (import resolution, package.json) log
\* nothing.
LoggedErrors(run) ==
    {[kind |-> "load", file |-> f] : f \in run.loadFail}
    \cup {[kind |-> "rewrite", file |-> f] : f \in run.rwFail}
    \cup {[kind |-> "save", file |-> f] : f \in run.saveFail}
    \cup {[kind |-> "remove", file |-> f] : f \in run.rmFail}

RECURSIVE FailureCount(_)
FailureCount(runs) ==
    IF runs = <<>> THEN 0
    ELSE Cardinality(Head(runs).loadFail) + Cardinality(Head(runs).rwFail)
             + Cardinality(Head(runs).saveFail) + Cardinality(Head(runs).rmFail)
             + FailureCount(Tail(runs))

\* await cleaner.clean()
Clean ==
    /\ cleaner = "ready"
    /\ Len(log) < MaxRuns
    /\ \E run \in Runs(project, disk, manifest, options, MaxFailures - FailureCount(log)) :
          /\ disk' = run.after
          /\ project' = run.project
          /\ log' = Append(log, run)
    /\ UNCHANGED <<manifest, options, cleaner, cli, style, sweeper, logger>>

Options == [dryRun : BOOLEAN, removeUnused : BOOLEAN, deepScrub : BOOLEAN,
            deleteUnusedFiles : BOOLEAN]

\* The project trees a behaviour may start from: every choice of at most
\* MaxFiles of the library files of the catalogue, and the whole catalogue.
Trees == {S \in SUBSET {File_a, File_b, File_c, File_utils, File_mock} :
             Cardinality(S) <= MaxFiles}
             \cup {Range(Catalogue)}

\* The state of Init, where no StyleCleaner exists.
NoStyle == [sheets |-> <<>>, texts |-> <<>>,
            options |-> [dryRun |-> FALSE, removeUnused |-> FALSE, scanComponents |-> TRUE],
            runs |-> <<>>]

\* The state of the specifications in which no AssetSweeper runs.
NoSweeper == [assets |-> {}, appText |-> <<>>,
              options |-> [dryRun |-> FALSE, deleteUnused |-> FALSE], runs |-> <<>>]

\* private static totalSteps = 10
TotalSteps == 10

\* The static fields of Logger when the module is loaded: no timer (0 is
\* null).  timers are the intervals that setInterval started and
\* clearInterval did not clear; nextId is the next timer that setInterval
\* returns; beat is the parity of the number of interval callbacks that
\* have run; task is the runWithProgress call in progress.
NoLogger == [progressTimer |-> 0, currentProgress |-> 0, totalSteps |-> TotalSteps,
             currentPhase |-> "start", timers |-> {}, nextId |-> 1, beat |-> 0,
             task |-> [pc |-> "idle", phase |-> 0, phases |-> 0,
                       originalTotalSteps |-> TotalSteps]]

\* The state of Init, where no command is running.
NoCli == [pc |-> "none", targetDir |-> TargetDir, exitCode |-> -1,
          interactive |-> FALSE, cancelled |-> FALSE,
          started |-> <<>>, errors |-> <<>>, dependencyResult |-> <<>>,
          flags |-> [deepScrub |-> FALSE, dryRun |-> FALSE, removeUnused |-> FALSE,
                     analyzeComplexity |-> FALSE, analyzeDependencies |-> FALSE,
                     checkCircular |-> FALSE]]

Init ==
    /\ logger = NoLogger
    /\ sweeper = NoSweeper
    /\ \E S \in Trees : disk = [f \in S |-> InitialContent(f)]
    /\ manifest \in ManifestChoices
    /\ options \in Options
    /\ cleaner = "none"
    /\ project = <<>>
    /\ log = <<>>
    /\ cli = NoCli
    /\ style = NoStyle

Next == Construct \/ Clean

Spec == Init /\ [][Next]_vars

----------------------------------------------------------------------------
(* The command line: the action of the vibe-janitor command *)

\* path.resolve(directory) of a run on a directory that does not exist.
MissingDir == <<<<"q">>>>

\* The flags of a run.  Flags that only change what is printed (--list,
\* --report, --log, --quiet, --no-progress) are left unset.
Flags == [deepScrub : BOOLEAN, dryRun : BOOLEAN, removeUnused : BOOLEAN,
          analyzeComplexity : BOOLEAN, analyzeDependencies : BOOLEAN,
          checkCircular : BOOLEAN]

\* The directory check without its test.
DirectoryExists_always(d, targetDir) == TRUE

\* fs.existsSync(targetDir): the project directory exists in every tree,
\* also when it holds no source file.
DirectoryExists(d, targetDir) == targetDir = TargetDir \/ ExistsSync(d, targetDir)

\* The options runCleanupModules constructs the Cleaner with; it passes no
\* deleteUnusedFiles.
CleanerOptions(flags) ==
    [dryRun |-> flags.dryRun, removeUnused |-> flags.removeUnused,
     deepScrub |-> flags.deepScrub, deleteUnusedFiles |-> FALSE]

\* The result of a dependency audit that found nothing.
EmptyAuditResult ==
    [unusedDependencies |-> <<>>, missingDependencies |-> {},
     possibleNativeReplacements |-> <<>>,
     totalDependencies |-> 0, totalDevDependencies |-> 0]

\* results.missing of depcheck: the packages that the files of the tree
\* import and the manifest does not declare (the manifests declare none).
depcheck_missing(d) ==
    LET specs == UNION {{d[f][i].spec : i \in 1..Len(d[f])} : f \in DOMAIN d}
    IN  {spec \in specs : /\ spec # <<>>
                          /\ ~StartsWith(spec, <<".">>)
                          /\ ~StartsWith(spec, <<"/">>)}

\* The audit without its test for package.json.
audit_withoutManifestCheck(d, mf) ==
    [result |-> [EmptyAuditResult EXCEPT !.missingDependencies = depcheck_missing(d)],
     errors |-> <<>>]

\* DependencyAuditor.audit(): the result it returns and the error it logs.
\* Without a package.json, or with one that fs.readJson cannot parse, the
\* error thrown inside the try block is caught.
audit(d, mf) ==
    IF mf = <<>> \/ ~mf[1].parses
    THEN [result |-> EmptyAuditResult, errors |-> <<"Dependency audit failed">>]
    ELSE [result |-> [EmptyAuditResult EXCEPT !.missingDependencies = depcheck_missing(d)],
          errors |-> <<>>]

hasExplicitOptions(flags) ==
    \/ flags.removeUnused
    \/ flags.dryRun
    \/ flags.deepScrub
    \/ flags.analyzeComplexity
    \/ flags.analyzeDependencies
    \/ flags.checkCircular

\* The confirm questions of promptForOptions, in the order they are asked.
Questions == <<"removeUnused", "list", "report", "deepScrub", "analyzeDependencies",
               "checkCircular">>

\* promptForOptions: the user answers the first `answered` questions and
\* cancels the next one, or answers all of them.  onCancel returns null to
\* prompts(), which stops asking and resolves with the answers given so
\* far; they are merged into the options.  The value returned is <<>> for
\* null, else <<options>>.
promptForOptions(flags, answers, answered) ==
    << [name \in DOMAIN flags |->
           IF \E k \in 1..answered : Questions[k] = name
           THEN answers[name] ELSE flags[name]] >>

\* The start of the action: the directory check, then the interactive
\* prompts when no flag is given and --no-interactive is not.
CliStart ==
    /\ cli.pc = "start"
    /\ \E answers \in [{"removeUnused", "deepScrub", "analyzeDependencies",
                         "checkCircular"} -> BOOLEAN],
          answered \in 0..Len(Questions) :
          cli' = IF ~DirectoryExists(disk, cli.targetDir)
                 THEN [cli EXCEPT !.pc = "exited", !.exitCode = 1,
                                  !.errors = Append(@, "Directory not found")]
                 ELSE IF ~hasExplicitOptions(cli.flags) /\ cli.interactive
                 THEN IF promptForOptions(cli.flags, answers, answered) = <<>>
                      THEN [cli EXCEPT !.pc = "exited", !.exitCode = 0,
                                       !.cancelled = TRUE]
                      ELSE [cli EXCEPT
                               !.pc = "modules",
                               !.cancelled = answered < Len(Questions),
                               !.flags = promptForOptions(cli.flags, answers,
                                                          answered)[1]]
                 ELSE [cli EXCEPT !.pc = "modules"]
    /\ UNCHANGED <<disk, manifest, options, cleaner, project, log, style, sweeper, logger>>

\* runCleanupModules and the end of the action: a new Cleaner and its
\* clean(), then the modules the flags ask for, each on the tree the
\* Cleaner left; the summary is printed and the process ends.  The asset
\* sweep removes nothing, the trees hold no asset file; the complexity
\* analysis and the scan for circular dependencies only read.
RunCleanupModules ==
    /\ cli.pc = "modules"
    /\ \E run \in Runs(<<>>, disk, manifest, CleanerOptions(cli.flags), MaxFailures) :
          /\ disk' = run.after
          /\ project' = run.project
          /\ log' = Append(log, run)
          /\ cli' = [cli EXCEPT
                !.pc = "done",
                !.exitCode = 0,
                !.started =
                    <<"Cleaner">>
                    \o (IF cli.flags.deepScrub THEN <<"AssetSweeper">> ELSE <<>>)
                    \o (IF cli.flags.analyzeComplexity THEN <<"Analyzer">> ELSE <<>>)
                    \o (IF cli.flags.analyzeDependencies \/ cli.flags.deepScrub
                        THEN <<"DependencyAuditor">> ELSE <<>>)
                    \o (IF cli.flags.checkCircular \/ cli.flags.deepScrub
                        THEN <<"CircularDependencyScanner">> ELSE <<>>),
                !.dependencyResult =
                    IF cli.flags.analyzeDependencies \/ cli.flags.deepScrub
                    THEN <<audit(run.after, manifest).result>> ELSE <<>>,
                !.errors =
                    IF cli.flags.analyzeDependencies \/ cli.flags.deepScrub
                    THEN audit(run.after, manifest).errors ELSE <<>>]
    /\ options' = CleanerOptions(cli.flags)
    /\ cleaner' = "ready"
    /\ UNCHANGED <<manifest, style, sweeper, logger>>

CliInit ==
    /\ logger = NoLogger
    /\ sweeper = NoSweeper
    /\ \E S \in Trees : disk = [f \in S |-> InitialContent(f)]
    /\ manifest \in ManifestChoices
    /\ options = CleanerOptions(NoCli.flags)
    /\ cleaner = "none"
    /\ project = <<>>
    /\ log = <<>>
    /\ \E targetDir \in {TargetDir, MissingDir}, flags \in Flags, interactive \in BOOLEAN :
          cli = [NoCli EXCEPT !.pc = "start", !.targetDir = targetDir, !.flags = flags,
                              !.interactive = interactive]
    /\ style = NoStyle

CliNext == CliStart \/ RunCleanupModules

CliSpec == CliInit /\ [][CliNext]_vars

----------------------------------------------------------------------------
(* StyleCleaner *)

\* this.styleFiles and the one file of this.sourceFiles, as the globs of
\* findFiles return them.
StyleFiles == << <<<<"p">>, <<"s","r","c">>, <<"c","o","m","p","o","n","e","n","t","s">>, <<"c","a","r","d",".","c","s","s">>>>, <<<<"p">>, <<"s","r","c">>, <<"s","t","y","l","e","s">>, <<"m","a","i","n",".","c","s","s">>>> >>

ComponentFile == <<<<"p">>, <<"s","r","c">>, <<"c","o","m","p","o","n","e","n","t","s">>, <<"A","p","p",".","j","s">>>>

\* A simple selector of a stylesheet: a class selector (type "class"), a
\* class selector inside :not() (type "not"), or a type selector or
\* pseudo-class (type "other").
Part(type, name) == [type |-> type, name |-> name]

\* A rule: its selector list (each selector a sequence of parts) and the
\* length of its declaration block.
Rule(selectors, declarations) == [selectors |-> selectors, declarations |-> declarations]

\* The stylesheets a file may hold; pretty tells whether the text has the
\* white space that cssTree.generate does not write.
StyleSheets ==
    { \* .header {..}  .footer {..}  .unused-class {..}  body {..}
      [pretty |-> TRUE,
       rules |-> << Rule(<< <<Part("class", "header")>> >>, 2),
                    Rule(<< <<Part("class", "footer")>> >>, 2),
                    Rule(<< <<Part("class", "unused-class")>> >>, 2),
                    Rule(<< <<Part("other", "body")>> >>, 2) >>],
      \* .header {..}
      [pretty |-> TRUE,
       rules |-> << Rule(<< <<Part("class", "header")>> >>, 1) >>],
      \* .header{..}.header:hover{..}
      [pretty |-> FALSE,
       rules |-> << Rule(<< <<Part("class", "header")>> >>, 1),
                    Rule(<< <<Part("class", "header"), Part("other", "hover")>> >>, 1) >>],
      \* .unused-class, .header {..}  div:not(.unused-class) {..}
      \* .footer .unused-class {..}
      [pretty |-> TRUE,
       rules |-> << Rule(<< <<Part("class", "unused-class")>>,
                            <<Part("class", "header")>> >>, 1),
                    Rule(<< <<Part("other", "div"), Part("not", "unused-class")>> >>, 1),
                    Rule(<< <<Part("class", "footer"), Part("class", "unused-class")>> >>, 1) >>],
      \* .footer{..}
      [pretty |-> FALSE,
       rules |-> << Rule(<< <<Part("class", "footer")>> >>, 1) >>] }

\* The texts the source file may hold, as the places that can name a class:
\* className="..." / class="..." / classList.add('...') / x.name / class: '...'
\* (the five classUsagePatterns), className={...} ("dynamic"), and any other
\* mention such as clsx('...') ("other").
ComponentTexts ==
    { <<>>,
      << [pattern |-> "className", text |-> <<"header", "footer">>] >>,
      << [pattern |-> "member", text |-> <<"header">>],
         [pattern |-> "other", text |-> <<"footer">>] >>,
      << [pattern |-> "dynamic", text |-> <<>>],
         [pattern |-> "classList.add", text |-> <<"footer">>] >> }

\* content.length of a stylesheet.
Length(sheet) ==
    SumSeq([r \in 1..Len(sheet.rules) |->
               SumSeq([s \in 1..Len(sheet.rules[r].selectors) |->
                          Len(sheet.rules[r].selectors[s])])
               + sheet.rules[r].declarations + 2
               + (IF sheet.pretty THEN 3 ELSE 0)])

\* The ClassSelector nodes below a selector list, in document order.
ClassSelectors(selectors) ==
    Flatten([s \in 1..Len(selectors) |->
                LET classes == SelectSeq(selectors[s],
                                   LAMBDA part : part.type \in {"class", "not"})
                IN  [k \in 1..Len(classes) |-> classes[k].name]])

\* StyleCleaner.extractStyleDefinitions: one definition per style file, with
\* one selector object for every ClassSelector node of every rule.
extractStyleDefinitions(sheets) ==
    LET files == SelectSeq(StyleFiles, LAMBDA file : file \in DOMAIN sheets)
    IN  [d \in 1..Len(files) |->
            [file |-> files[d],
             selectors |->
                 LET names == Flatten([r \in 1..Len(sheets[files[d]].rules) |->
                                  ClassSelectors(sheets[files[d]].rules[r].selectors)])
                 IN  [k \in 1..Len(names) |-> [selector |-> names[k], used |-> FALSE]]]]

\* The class names that the classUsagePatterns match in a text.
MatchedClasses(text) ==
    UNION {Range(text[t].text) :
              t \in {u \in 1..Len(text) :
                        text[u].pattern \in {"className", "class", "classList.add",
                                             "member", "vueClass"}}}

\* StyleCleaner.findClassUsages: classMap keeps, for every class name, the
\* selector object set last; a match marks that object; a dynamic className
\* marks every selector of the style files in the directory of the source.
findClassUsages(styleDefinitions, texts, opts) ==
    LET inClassMap(d, k) ==
            \A d2 \in 1..Len(styleDefinitions) :
                \A k2 \in 1..Len(styleDefinitions[d2].selectors) :
                    (styleDefinitions[d2].selectors[k2].selector
                         = styleDefinitions[d].selectors[k].selector)
                    => (d2 < d \/ (d2 = d /\ k2 <= k))
        matched == UNION {MatchedClasses(texts[f]) : f \in DOMAIN texts}
        dynamicDirs == {Dirname(f) : f \in {g \in DOMAIN texts :
                            /\ opts.scanComponents
                            /\ \E t \in 1..Len(texts[g]) : texts[g][t].pattern = "dynamic"}}
    IN  [d \in 1..Len(styleDefinitions) |->
            [file |-> styleDefinitions[d].file,
             selectors |->
                 [k \in 1..Len(styleDefinitions[d].selectors) |->
                     [selector |-> styleDefinitions[d].selectors[k].selector,
                      used |->
                          \/ /\ styleDefinitions[d].selectors[k].selector \in matched
                             /\ inClassMap(d, k)
                          \/ Dirname(styleDefinitions[d].file) \in dynamicDirs]]]]

\* findUnusedSelectors with an entry for every definition.
findUnusedSelectors_withEmptyEntries(styleDefinitions) ==
    [d \in 1..Len(styleDefinitions) |->
        [file |-> styleDefinitions[d].file,
         selectors |-> LET unused == SelectSeq(styleDefinitions[d].selectors,
                                         LAMBDA selector : ~selector.used)
                       IN  [k \in 1..Len(unused) |-> unused[k].selector]]]

\* StyleCleaner.findUnusedSelectors
findUnusedSelectors(styleDefinitions) ==
    SelectSeq([d \in 1..Len(styleDefinitions) |->
                  [file |-> styleDefinitions[d].file,
                   selectors |-> LET unused == SelectSeq(styleDefinitions[d].selectors,
                                                   LAMBDA selector : ~selector.used)
                                 IN  [k \in 1..Len(unused) |-> unused[k].selector]]],
              LAMBDA entry : entry.selectors # <<>>)

\* The guard without its dry-run test.
StyleApplies_ignoringDryRun(opts) == opts.removeUnused

\* The guard of removeUnusedSelectors and of its call in clean().
StyleApplies(opts) == ~opts.dryRun /\ opts.removeUnused

\* The rewrite of one stylesheet: a rule is removed when every selector of
\* its list holds a class selector that selectors lists; the text is
\* generated anew from what is left.
CleanedContent(sheet, selectors) ==
    [pretty |-> FALSE,
     rules |-> SelectSeq(sheet.rules,
                   LAMBDA rule :
                       \E s \in 1..Len(rule.selectors) :
                           Range(ClassSelectors(<<rule.selectors[s]>>))
                               \cap Range(selectors) = {})]

\* StyleCleaner.removeUnusedSelectors: the stylesheets after it, the files
\* it wrote and the length it removed.
removeUnusedSelectors(sheets, unusedSelectors, opts) ==
    IF ~StyleApplies(opts)
    THEN [sheets |-> sheets, modifiedFiles |-> <<>>, bytesRemoved |-> 0]
    ELSE LET cleaned == [e \in 1..Len(unusedSelectors) |->
                            CleanedContent(sheets[unusedSelectors[e].file],
                                           unusedSelectors[e].selectors)]
             written == SelectSeq([e \in 1..Len(unusedSelectors) |-> e],
                            LAMBDA e : cleaned[e] # sheets[unusedSelectors[e].file])
         IN  [sheets |-> [file \in DOMAIN sheets |->
                            IF \E e \in Range(written) : unusedSelectors[e].file = file
                            THEN cleaned[CHOOSE e \in Range(written) :
                                             unusedSelectors[e].file = file]
                            ELSE sheets[file]],
              modifiedFiles |-> [w \in 1..Len(written) |-> unusedSelectors[written[w]].file],
              bytesRemoved |->
                  SumSeq([e \in 1..Len(unusedSelectors) |->
                             Length(sheets[unusedSelectors[e].file]) - Length(cleaned[e])])]

\* StyleCleaner.clean(): the record of one call, with the stylesheets before
\* and after it and the result it returns.
StyleCleaner_clean(sheets, texts, opts) ==
    LET styleDefinitions == findClassUsages(extractStyleDefinitions(sheets), texts, opts)
        unusedSelectors  == findUnusedSelectors(styleDefinitions)
        totalUnused == SumSeq([e \in 1..Len(unusedSelectors) |->
                                  Len(unusedSelectors[e].selectors)])
        removal == IF StyleApplies(opts) /\ totalUnused > 0
                   THEN removeUnusedSelectors(sheets, unusedSelectors, opts)
                   ELSE [sheets |-> sheets, modifiedFiles |-> <<>>, bytesRemoved |-> 0]
    IN  [before |-> sheets,
         after  |-> removal.sheets,
         result |-> [analyzedFiles |-> Cardinality(DOMAIN sheets),
                     styleDefinitions |-> styleDefinitions,
                     unusedSelectors |-> unusedSelectors,
                     modifiedFiles |-> removal.modifiedFiles,
                     totalSelectorsFound |->
                         SumSeq([d \in 1..Len(styleDefinitions) |->
                                    Len(styleDefinitions[d].selectors)]),
                     totalUnusedSelectors |-> totalUnused,
                     bytesRemoved |-> removal.bytesRemoved]]

\* new StyleCleaner(targetDir, options).clean()
StyleClean ==
    /\ Len(style.runs) < MaxRuns
    /\ style' = [style EXCEPT
                    !.sheets = StyleCleaner_clean(style.sheets, style.texts, style.options).after,
                    !.runs = Append(@, StyleCleaner_clean(style.sheets, style.texts,
                                                          style.options))]
    /\ UNCHANGED <<disk, manifest, options, cleaner, project, log, cli, sweeper, logger>>

StyleInit ==
    /\ logger = NoLogger
    /\ sweeper = NoSweeper
    /\ disk = <<>>
    /\ manifest = <<>>
    /\ options = CleanerOptions(NoCli.flags)
    /\ cleaner = "none"
    /\ project = <<>>
    /\ log = <<>>
    /\ cli = NoCli
    /\ \E files \in SUBSET Range(StyleFiles) :
          \E sheets \in [files -> StyleSheets], text \in ComponentTexts,
             opts \in [dryRun : BOOLEAN, removeUnused : BOOLEAN, scanComponents : BOOLEAN] :
              style = [sheets |-> sheets, texts |-> (ComponentFile :> text),
                       options |-> opts, runs |-> <<>>]

StyleNext == StyleClean

StyleSpec == StyleInit /\ [][StyleNext]_vars

----------------------------------------------------------------------------
(* AssetSweeper (core/assetSweeper.ts) *)

\* The asset files of the project in the order the globs list them, with
\* their sizes in bytes.  A stylesheet is a source file as well, so it has
\* a text.
Assets == <<
    [path |-> <<<<"p">>, <<"s","r","c">>, <<"i","m","g">>, <<"l","o","g","o",".","p","n","g">>>>, kind |-> "image", size |-> 2, text |-> <<>>],
    [path |-> <<<<"p">>, <<"s","r","c">>, <<"i","m","g">>, <<"o","l","d",".","p","n","g">>>>, kind |-> "image", size |-> 3, text |-> <<>>],
    [path |-> <<<<"p">>, <<"p","u","b","l","i","c">>, <<"p","i","c",".","p","n","g">>>>, kind |-> "image", size |-> 1, text |-> <<>>],
    [path |-> <<<<"p">>, <<"s","r","c">>, <<"f","o","n","t","s">>, <<"a",".","w","o","f","f">>>>, kind |-> "font", size |-> 4, text |-> <<>>],
    [path |-> <<<<"p">>, <<"s","r","c">>, <<"g","l","o","b","a","l",".","c","s","s">>>>, kind |-> "style", size |-> 1,
     text |-> <<"b","o","d","y","{","}">>],
    [path |-> <<<<"p">>, <<"s","r","c">>, <<"o","l","d",".","c","s","s">>>>, kind |-> "style", size |-> 2,
     text |-> <<"a","{","s","r","c",":","u","r","l","(","f","o","n","t","s","/","a",".","w","o","f","f",")","}","/","*"," ","a","f","t","e","r"," ","g","l","o","b","a","l",".","c","s","s"," ","*","/">>] >>

\* The texts the one script of the project may have.
AppTexts == { <<>>,
              <<"r","e","q","u","i","r","e","(",".","/","s","r","c","/","i","m","g","/","l","o","g","o",".","p","n","g",")">>,
              <<"<","i","m","g"," ","s","r","c","=","o","l","d",".","p","n","g",">","<","l","i","n","k"," ","h","r","e","f","=","/","s","r","c","/","o","l","d",".","c","s","s",">">> }

\* findAssets: the three globs, which skip the ignored directories.
findAssets(onDisk) ==
    SelectSeq(Assets, LAMBDA a :
        /\ a.path \in onDisk
        /\ ~\E k \in 1..(Len(a.path) - 1) :
              a.path[k] \in {<<"n","o","d","e","_","m","o","d","u","l","e","s">>, <<"d","i","s","t">>, <<"b","u","i","l","d">>, <<"c","o","v","e","r","a","g","e">>,
                             <<".","g","i","t">>, <<"p","u","b","l","i","c">>, <<"s","t","a","t","i","c">>, <<"a","s","s","e","t","s">>})

\* findSourceFiles and readFileSync: the contents of the source files, the
\* script and the stylesheets outside the ignored directories.
SourceContents(onDisk, appText) ==
    {appText} \cup
    {Assets[i].text : i \in {j \in 1..Len(Assets) :
        /\ Assets[j].kind = "style"
        /\ Assets[j].path \in onDisk
        /\ ~\E k \in 1..(Len(Assets[j].path) - 1) :
              Assets[j].path[k] \in {<<"n","o","d","e","_","m","o","d","u","l","e","s">>, <<"d","i","s","t">>, <<"b","u","i","l","d">>, <<"c","o","v","e","r","a","g","e">>,
                                     <<".","g","i","t">>, <<"p","u","b","l","i","c">>, <<"s","t","a","t","i","c">>, <<"a","s","s","e","t","s">>,
                                     <<"v","e","n","d","o","r">>, <<"o","u","t">>, <<"t","m","p">>, <<"t","e","m","p">>, <<"c","a","c","h","e">>}}}

isAssetReferenced(assetPath, contents) ==
    LET assetName == Basename(assetPath)
        relativeToProject == RelativeString(TargetDir, assetPath)
        possibleReferences == {assetName, relativeToProject,
                               <<"/">> \o relativeToProject,
                               <<".", "/">> \o relativeToProject}
    IN  \E content \in contents, ref \in possibleReferences : Includes(content, ref)

isProtectedAsset_never(assetPath) == FALSE

isProtectedAsset(assetPath) ==
    \E pattern \in {<<"/","s","t","a","t","i","c","/">>, <<"/","p","u","b","l","i","c","/">>, <<"/","a","s","s","e","t","s","/">>, <<"/","g","l","o","b","a","l",".","c","s","s">>} :
        Includes(PathString(assetPath), pattern)

\* findUnusedAssets: the unreferenced assets by kind, and their total size.
findUnusedAssets(onDisk, appText) ==
    LET unused == SelectSeq(findAssets(onDisk), LAMBDA a :
                      ~isAssetReferenced(a.path, SourceContents(onDisk, appText)))
        paths(kind) == LET ofKind == SelectSeq(unused, LAMBDA a : a.kind = kind)
                       IN  [i \in 1..Len(ofKind) |-> ofKind[i].path]
        sum[i \in 0..Len(unused)] == IF i = 0 THEN 0 ELSE sum[i - 1] + unused[i].size
    IN  [unusedImages |-> paths("image"), unusedFonts |-> paths("font"),
         unusedStyles |-> paths("style"), totalSize |-> sum[Len(unused)],
         deletedAssets |-> <<>>]

\* deleteUnusedAssets: fs.remove of every unused asset that is not
\* protected; rmFail are the assets whose fs.remove throws.
deleteUnusedAssets(result, opts, rmFail) ==
    IF ~opts.deleteUnused \/ opts.dryRun THEN <<>>
    ELSE SelectSeq(result.unusedImages \o result.unusedFonts \o result.unusedStyles,
                   LAMBDA assetPath : ~isProtectedAsset(assetPath) /\ assetPath \notin rmFail)

\* sweep(): the result it returns and the asset files it leaves.
sweep(onDisk, appText, opts, rmFail) ==
    LET result == findUnusedAssets(onDisk, appText)
        deleted == IF opts.deleteUnused THEN deleteUnusedAssets(result, opts, rmFail)
                   ELSE <<>>
    IN  [before |-> onDisk, after |-> onDisk \ Range(deleted), rmFail |-> rmFail,
         result |-> [result EXCEPT !.deletedAssets = deleted]]

\* new AssetSweeper(targetDir, options).sweep()
Sweep ==
    /\ Len(sweeper.runs) < MaxRuns
    /\ \E rmFail \in {F \in SUBSET sweeper.assets : Cardinality(F) <= MaxFailures} :
          sweeper' = [sweeper EXCEPT
              !.assets = sweep(sweeper.assets, sweeper.appText, sweeper.options, rmFail).after,
              !.runs = Append(@, sweep(sweeper.assets, sweeper.appText, sweeper.options,
                                       rmFail))]
    /\ UNCHANGED <<disk, manifest, options, cleaner, project, log, cli, style, logger>>

SweepInit ==
    /\ logger = NoLogger
    /\ disk = <<>>
    /\ manifest = <<>>
    /\ options = CleanerOptions(NoCli.flags)
    /\ cleaner = "none"
    /\ project = <<>>
    /\ log = <<>>
    /\ cli = NoCli
    /\ style = NoStyle
    /\ \E onDisk \in SUBSET {Assets[i].path : i \in 1..Len(Assets)}, appText \in AppTexts,
          opts \in [dryRun : BOOLEAN, deleteUnused : BOOLEAN] :
            sweeper = [assets |-> onDisk, appText |-> appText, options |-> opts,
                       runs |-> <<>>]

SweepNext == Sweep

SweepSpec == SweepInit /\ [][SweepNext]_vars

----------------------------------------------------------------------------
(* Logger: the progress bar (utils/logger.ts) *)

\* setInterval returns a new timer each time; at most MaxTimers are started.
MaxTimers == 3

\* The largest number of phases a runWithProgress call is given.
MaxPhases == 3

\* currentProgress is counted up to MaxProgress, which is above totalSteps:
\* every test of the code on a larger value has the same outcome.
MaxProgress == 11

\* Logger.stopProgress
stopProgress(l) ==
    IF l.progressTimer # 0
    THEN [l EXCEPT !.timers = @ \ {l.progressTimer}, !.progressTimer = 0]
    ELSE l

\* Logger.startProgress: the fields are reset and progressTimer is assigned
\* the new interval; the interval it held is not cleared.
startProgress(l) ==
    [l EXCEPT !.currentProgress = 0, !.currentPhase = "start",
              !.progressTimer = l.nextId, !.timers = @ \cup {l.nextId},
              !.nextId = @ + 1]

\* The start of one phase of runWithProgress, up to its await; after the
\* last phase totalSteps is restored and the call returns.
nextPhase(l, phase) ==
    IF phase < l.task.phases
    THEN startProgress([l EXCEPT
             !.totalSteps = 10,
             !.currentProgress = 0,
             !.currentPhase = IF phase = 0 THEN "start"
                              ELSE IF phase = l.task.phases - 1 THEN "end"
                              ELSE "middle",
             !.task.phase = phase,
             !.task.pc = IF phase = 0 THEN "task" ELSE "delay"])
    ELSE [l EXCEPT !.totalSteps = l.task.originalTotalSteps, !.task.pc = "idle"]

\* The timers the phases of the call in progress have still to start.
TimersToStart(l) == IF l.task.pc = "idle" THEN 0 ELSE l.task.phases - l.task.phase - 1

\* A call of Logger.startProgress()
StartProgress ==
    /\ logger.nextId + TimersToStart(logger) <= MaxTimers
    /\ logger' = startProgress(logger)
    /\ UNCHANGED <<disk, manifest, options, cleaner, project, log, cli, style, sweeper>>

\* A call of Logger.stopProgress()
StopProgress ==
    /\ logger' = stopProgress(logger)
    /\ UNCHANGED <<disk, manifest, options, cleaner, project, log, cli, style, sweeper>>

\* The callback of the interval t, every 500 ms while t is not cleared.
Tick(t) ==
    /\ t \in logger.timers
    /\ LET progress == IF logger.currentProgress < MaxProgress
                       THEN logger.currentProgress + 1 ELSE MaxProgress
           phase == IF 10 * progress >= 3 * logger.totalSteps
                       /\ logger.currentPhase = "start" THEN "middle"
                    ELSE IF 10 * progress >= 7 * logger.totalSteps
                            /\ logger.currentPhase = "middle" THEN "end"
                    ELSE logger.currentPhase
           ticked == [logger EXCEPT !.currentProgress = progress, !.currentPhase = phase,
                                    !.beat = 1 - @]
       IN  logger' = IF progress >= logger.totalSteps THEN stopProgress(ticked) ELSE ticked
    /\ UNCHANGED <<disk, manifest, options, cleaner, project, log, cli, style, sweeper>>

\* A call of Logger.runWithProgress(task, phases), up to the await of the
\* task.
RunWithProgress ==
    /\ logger.task.pc = "idle"
    /\ \E phases \in 1..MaxPhases :
          /\ logger.nextId + phases - 1 <= MaxTimers
          /\ logger' = nextPhase([logger EXCEPT
                                     !.task.phases = phases,
                                     !.task.originalTotalSteps = logger.totalSteps], 0)
    /\ UNCHANGED <<disk, manifest, options, cleaner, project, log, cli, style, sweeper>>

\* The task settles.  When it resolves, the phase is stopped and the next
\* one starts; when it rejects, runWithProgress throws at the await.
TaskSettles ==
    /\ logger.task.pc = "task"
    /\ \E resolves \in BOOLEAN :
          logger' = IF resolves THEN nextPhase(stopProgress(logger), 1)
                    ELSE [logger EXCEPT !.task.pc = "idle"]
    /\ UNCHANGED <<disk, manifest, options, cleaner, project, log, cli, style, sweeper>>

\* The setTimeout of a later phase fires.
DelayElapses ==
    /\ logger.task.pc = "delay"
    /\ logger' = nextPhase(stopProgress(logger), logger.task.phase + 1)
    /\ UNCHANGED <<disk, manifest, options, cleaner, project, log, cli, style, sweeper>>

LoggerInit ==
    /\ disk = <<>>
    /\ manifest = <<>>
    /\ options = CleanerOptions(NoCli.flags)
    /\ cleaner = "none"
    /\ project = <<>>
    /\ log = <<>>
    /\ cli = NoCli
    /\ style = NoStyle
    /\ sweeper = NoSweeper
    /\ logger = NoLogger

LoggerNext ==
    \/ StartProgress
    \/ StopProgress
    \/ \E t \in 1..MaxTimers : Tick(t)
    \/ RunWithProgress
    \/ TaskSettles
    \/ DelayElapses

LoggerSpec == LoggerInit /\ [][LoggerNext]_vars

\* The event loop runs every interval that is not cleared and every
\* timeout, and the task settles; nothing obliges a caller to call.
LoggerFairSpec ==
    /\ LoggerSpec
    /\ \A t \in 1..MaxTimers : WF_vars(Tick(t))
    /\ WF_vars(TaskSettles)
    /\ WF_vars(DelayElapses)

----------------------------------------------------------------------------
(* What the properties below speak of.                                     *)

\* The index of the run that has just finished.  Every run is the latest run
\* of the state its clean() call ends in, so what holds of the latest run in
\* every reachable state holds of every run.
LatestRun == IF log = <<>> THEN {} ELSE {Len(log)}

\* A run in which nothing threw.
NoFailure(run) ==
    run.loadFail = {} /\ run.rwFail = {} /\ run.saveFail = {} /\ run.rmFail = {}

\* Apply mode with deep scrub and file deletion enabled.
FullApply(opts) ==
    ~opts.dryRun /\ opts.removeUnused /\ opts.deepScrub /\ opts.deleteUnusedFiles

\* The import specifiers of the catalogue.
AllSpecifiers ==
    UNION { {st.spec : st \in Range(ImportsOf(InitialContent(f)))} : f \in Range(Catalogue) }

\* The ordered candidates of a relative specifier written in file g: the
\* exact path, then for each extension <path><ext> and <path>/index<ext>;
\* none for a specifier that does not start with ".".
SpecifierCandidates ==
    [g \in Range(Catalogue), spec \in AllSpecifiers |->
        IF ~StartsWith(spec, <<".">>) THEN <<>>
        ELSE LET resolved == ResolveString(Dirname(g), spec)
             IN  <<resolved>> \o ProbeCandidates(resolved)]

\* The file a specifier of g stands for: the first candidate that is an
\* existing file (as a set, empty when there is none).
ImportTarget(d, g, spec) ==
    LET cands == SpecifierCandidates[g, spec]
        hits  == {k \in 1..Len(cands) : IsFile(d, cands[k])}
    IN  IF hits = {} THEN {}
        ELSE {cands[CHOOSE k \in hits : \A j \in hits : k <= j]}

\* The files g imports.
ImportedBy(proj, d, g) ==
    UNION {ImportTarget(d, g, st.spec) : st \in Range(ImportsOf(proj[g]))}

\* The analysed files with an import that stands for f: the inbound import
\* edges of f.
Importers(proj, d, f) == {g \in DOMAIN proj : f \in ImportedBy(proj, d, g)}

\* The analysed files with a relative specifier of which f is a candidate
\* and the only candidate that exists.
ImportersByPath(proj, d, f) ==
    {g \in DOMAIN proj :
        \E st \in Range(ImportsOf(proj[g])) :
            LET cands == SpecifierCandidates[g, st.spec]
            IN  /\ IsFile(d, f)
                /\ f \in Range(cands)
                /\ \A k \in 1..Len(cands) : ExistsSync(d, cands[k]) => cands[k] = f}

\* The paths the manifest declares: main, the bin string, the values of the
\* bin mapping, each resolved against the project root.
DeclaredEntryPoints ==
    [mf \in ManifestChoices |->
        IF mf = <<>> THEN {}
        ELSE {PathString(ResolveString(TargetDir, p)) :
                 p \in (IF mf[1].main = NoName THEN {} ELSE {mf[1].main})
                          \cup Range(mf[1].bin)}]

\* The allow-set of the code for every manifest.
AllowSet == [mf \in ManifestChoices |-> EntryPoints(mf)]

\* The files reached from the files of S through imports, transitively.
RECURSIVE ReachableFrom(_, _, _)
ReachableFrom(S, proj, d) ==
    LET next == S \cup UNION {ImportedBy(proj, d, g) : g \in S \cap DOMAIN proj}
    IN  IF next = S THEN S ELSE ReachableFrom(next, proj, d)

\* The files that match a protection rule as the specification lists them:
\* the rules of isFileProtected and, in the file name, a mock or fixture
\* marker beside the test and spec markers.
MatchesProtectionRule ==
    {f \in Range(Catalogue) :
        \/ isFileProtected(f)
        \/ Includes(ToLowerCase(Basename(f)), <<"m","o","c","k",".">>)
        \/ Includes(ToLowerCase(Basename(f)), <<"f","i","x","t","u","r","e",".">>)}

\* The bytes of the files of S that are on the disk d.
RECURSIVE SizeOnDisk(_, _)
SizeOnDisk(S, d) ==
    IF S = {} THEN 0
    ELSE LET f == CHOOSE x \in S : TRUE
         IN  (IF f \in DOMAIN d THEN FileSize(d[f]) ELSE 0) + SizeOnDisk(S \ {f}, d)

----------------------------------------------------------------------------
(* C1 *)

\* C1: whenever dryRun is set, whatever the other options are, clean() leaves
\* the file tree as it found it and returns empty modifiedFiles and
\* deletedFiles.
C1_DryRunMutatesNothing ==
    \A i \in LatestRun :
        options.dryRun =>
            /\ log[i].after = log[i].before
            /\ log[i].result.modifiedFiles = <<>>
            /\ log[i].result.deletedFiles = <<>>

\* A dry run with every other option set that found unused imports and an
\* unused file on disk.
C1_Witness ==
    \E i \in DOMAIN log :
        /\ options.dryRun /\ options.removeUnused
        /\ options.deepScrub /\ options.deleteUnusedFiles
        /\ log[i].result.unusedImports # <<>>
        /\ \E f \in Range(log[i].result.unusedFiles) : f \in DOMAIN log[i].before

----------------------------------------------------------------------------
(* C2 *)

\* C2: a file that matches a protection rule (test, spec, mock or fixture
\* marker or directory, declaration file, configuration or dot file,
\* documentation, reserved directory, framework directory, child of the
\* project root) is still on disk after clean() and is not in deletedFiles,
\* also when deleteUnusedFiles, removeUnused and deepScrub are all set (the
\* case it is stated for here).
C2_ProtectedFilesSurvive ==
    \A i \in LatestRun :
        FullApply(options) =>
            \A f \in (DOMAIN log[i].before) \cap MatchesProtectionRule :
                /\ f \in DOMAIN log[i].after
                /\ f \notin Range(log[i].result.deletedFiles)

----------------------------------------------------------------------------
(* C3 *)

\* C3: when clean() has run in apply mode with deep scrub and file deletion
\* and runs again with the same options on the tree it left, the second run
\* rewrites no file and deletes no file.  (Stated for a second run by a new
\* Cleaner, with no file-system failure in either run.)
C3_SecondApplyChangesNothing ==
    \A i \in LatestRun :
        (/\ i > 1
         /\ FullApply(options)
         /\ log[i].fresh
         /\ NoFailure(log[i - 1]) /\ NoFailure(log[i]))
        => /\ log[i].result.modifiedFiles = <<>>
           /\ log[i].result.deletedFiles = <<>>
           /\ log[i].after = log[i].before

----------------------------------------------------------------------------
(* C4 *)

\* C4: with deep scrub, unusedFiles holds exactly the analysed files with no
\* inbound import edge that are no entry point and are not protected; so a
\* file that some analysed file imports is neither reported nor deleted.
\* (Entry points are taken as the allow-set the code builds.)
C4_UnusedFilesAreTheUnimported ==
    \A i \in LatestRun :
        options.deepScrub =>
            LET proj == log[i].analysed
                d    == log[i].before
            IN  /\ Range(log[i].result.unusedFiles) =
                      {f \in DOMAIN proj : /\ Importers(proj, d, f) = {}
                                           /\ FilePath[f] \notin AllowSet[manifest]
                                           /\ f \notin ProtectedFiles}
                /\ \A f \in DOMAIN proj :
                      Importers(proj, d, f) # {} =>
                          /\ f \notin Range(log[i].result.unusedFiles)
                          /\ f \notin Range(log[i].result.deletedFiles)

----------------------------------------------------------------------------
(* C5 *)

\* C5: when findUnusedFiles runs, the files it records as referenced are
\* exactly the first existing file among the ordered candidates of every
\* relative specifier, the index file of a directory the specifier names
\* included; other specifiers add none.
C5_ReferencedAreTheImportTargets ==
    \A i \in LatestRun :
        options.deepScrub =>
            LET proj == log[i].analysed
                d    == log[i].before
            IN  {p \in ReferencedFiles(proj, d) : IsFile(d, p)}
                    = UNION {ImportedBy(proj, d, g) : g \in DOMAIN proj}

----------------------------------------------------------------------------
(* C6 *)

\* C6 as it stands: with deep scrub, every analysed, unprotected file that is
\* not reachable through imports from a manifest main or bin entry point is
\* in unusedFiles.  (Stated for the runs in which an entry point is among the
\* analysed files.)
C6_UnreachedFilesAreFlagged ==
    \A i \in LatestRun :
        (/\ options.deepScrub
         /\ \E f \in DOMAIN log[i].analysed : FilePath[f] \in DeclaredEntryPoints[manifest])
        =>
            LET proj    == log[i].analysed
                d       == log[i].before
                entries == {f \in DOMAIN proj : FilePath[f] \in DeclaredEntryPoints[manifest]}
                reached == ReachableFrom(entries, proj, d)
            IN  \A f \in (DOMAIN proj) \ ProtectedFiles :
                    f \notin reached => f \in Range(log[i].result.unusedFiles)

\* C6 (amended): with deep scrub, every analysed, unprotected file outside
\* the entry-point allow-set that no analysed file imports is in unusedFiles,
\* and a file that is the only existing candidate of a relative specifier of
\* an analysed file is not, whether or not an entry point reaches the importer.
C6_DirectImportsDecide ==
    \A i \in LatestRun :
        options.deepScrub =>
            LET proj == log[i].analysed
                d    == log[i].before
            IN  \A f \in DOMAIN proj :
                    /\ (/\ f \notin ProtectedFiles
                        /\ FilePath[f] \notin AllowSet[manifest]
                        /\ Importers(proj, d, f) = {})
                       => f \in Range(log[i].result.unusedFiles)
                    /\ ImportersByPath(proj, d, f) # {}
                       => f \notin Range(log[i].result.unusedFiles)

\* A deep-scrub run of a project without manifest in which two files that
\* import each other are not flagged while a file nothing imports is.
C6_Witness ==
    \E i \in DOMAIN log :
        /\ options.deepScrub
        /\ manifest = <<>>
        /\ File_b \in ImportersByPath(log[i].analysed, log[i].before, File_a)
        /\ File_a \in ImportersByPath(log[i].analysed, log[i].before, File_b)
        /\ File_a \notin Range(log[i].result.unusedFiles)
        /\ File_b \notin Range(log[i].result.unusedFiles)
        /\ \E f \in Range(log[i].result.unusedFiles) :
              Importers(log[i].analysed, log[i].before, f) = {}

----------------------------------------------------------------------------
(* C7 *)

\* C7: no path the manifest declares as main, as bin string or as a value of
\* the bin mapping, resolved against the project root, is in unusedFiles or
\* in deletedFiles, and clean() leaves the file it names on disk.
C7_EntryPointsAreNeverUnused ==
    \A i \in LatestRun :
        \A f \in DOMAIN log[i].analysed :
            FilePath[f] \in DeclaredEntryPoints[manifest] =>
                /\ f \notin Range(log[i].result.unusedFiles)
                /\ f \notin Range(log[i].result.deletedFiles)
                /\ f \in DOMAIN log[i].before => f \in DOMAIN log[i].after

\* An apply run with deep scrub that deleted a file and spared a declared
\* entry point that is analysed, unprotected and imported by no file.
C7_Witness ==
    \E i \in DOMAIN log :
        /\ FullApply(options)
        /\ log[i].result.deletedFiles # <<>>
        /\ \E f \in (DOMAIN log[i].analysed) \ ProtectedFiles :
              /\ FilePath[f] \in DeclaredEntryPoints[manifest]
              /\ Importers(log[i].analysed, log[i].before, f) = {}
              /\ f \in DOMAIN log[i].after

----------------------------------------------------------------------------
(* C8 *)

\* C8 as it stands: after clean() in apply mode with deep scrub and file
\* deletion, no file of unusedFiles is on disk, and deletedFiles holds the
\* files of unusedFiles whose removal succeeded and no other.
C8_UnusedFilesAreGone ==
    \A i \in LatestRun :
        FullApply(options) =>
            /\ \A f \in Range(log[i].result.unusedFiles) : f \notin DOMAIN log[i].after
            /\ Range(log[i].result.deletedFiles)
                  = Range(log[i].result.unusedFiles) \ log[i].rmFail

\* C8 (amended): after clean() in apply mode with deep scrub and file
\* deletion, every file of unusedFiles whose removal succeeded is gone from
\* the disk and listed in deletedFiles; one whose removal failed is still on
\* disk and not listed; deletedFiles holds no other file.
C8_RemovedFilesAreGone ==
    \A i \in LatestRun :
        FullApply(options) =>
            /\ \A f \in Range(log[i].result.unusedFiles) :
                  IF f \in log[i].rmFail
                  THEN f \in DOMAIN log[i].after
                       /\ f \notin Range(log[i].result.deletedFiles)
                  ELSE f \notin DOMAIN log[i].after
                       /\ f \in Range(log[i].result.deletedFiles)
            /\ Range(log[i].result.deletedFiles) \subseteq Range(log[i].result.unusedFiles)

\* A run in which one removal failed and another succeeded.
C8_Witness ==
    \E i \in DOMAIN log :
        /\ FullApply(options)
        /\ log[i].rmFail # {}
        /\ \E f \in Range(log[i].result.deletedFiles) :
              f \in DOMAIN log[i].before /\ f \notin DOMAIN log[i].after

----------------------------------------------------------------------------
(* C9 *)

\* C9: unless deleteUnusedFiles is set, clean() deletes no file: deletedFiles
\* is empty and every file that was on disk still is.
C9_DeletionNeedsItsOption ==
    \A i \in LatestRun :
        ~options.deleteUnusedFiles =>
            /\ log[i].result.deletedFiles = <<>>
            /\ DOMAIN log[i].before \subseteq DOMAIN log[i].after

----------------------------------------------------------------------------
(* C10 *)

----------------------------------------------------------------------------
(* C11 *)

\* The statements of a file that are no import declarations.
NonImports(content) == SelectSeq(content, LAMBDA st : st.kind # "import")

\* C11: when deepScrub is not set, clean() reports no unused variable,
\* function or file, deletes no file, and changes nothing but import
\* declarations: the other statements of every source file, in memory and on
\* disk, are the ones it found.
C11_DeepScrubGates ==
    \A i \in LatestRun :
        ~options.deepScrub =>
            /\ log[i].result.unusedVariables = <<>>
            /\ log[i].result.unusedFunctions = <<>>
            /\ log[i].result.unusedFiles = <<>>
            /\ log[i].result.deletedFiles = <<>>
            /\ log[i].result.unusedFilesSize = 0
            /\ DOMAIN log[i].before \subseteq DOMAIN log[i].after
            /\ \A f \in DOMAIN log[i].analysed :
                  NonImports(log[i].project[f]) = NonImports(log[i].analysed[f])
            /\ \A f \in DOMAIN log[i].before :
                  NonImports(log[i].after[f]) = NonImports(log[i].before[f])

\* An apply run without deep scrub that rewrote a file and left an unused
\* variable and an unimported, unprotected file where they were.
C11_Witness ==
    \E i \in DOMAIN log :
        /\ ~options.deepScrub /\ ~options.dryRun /\ options.removeUnused
        /\ log[i].result.modifiedFiles # <<>>
        /\ \E f \in DOMAIN log[i].after :
              \E k \in 1..Len(log[i].after[f]) :
                  IsUnusedVariable(log[i].after[f][k], getText(log[i].after[f]))
        /\ \E f \in (DOMAIN log[i].after) \ ProtectedFiles :
              /\ f \in DOMAIN log[i].analysed
              /\ Importers(log[i].analysed, log[i].before, f) = {}

----------------------------------------------------------------------------
(* C12 *)

\* The names of the import bindings of a file that match its text as a whole
\* word at most once: named imports (with an alias too when aliased is TRUE),
\* default imports and namespace imports.
RarelyNamedBindings(content, aliased) ==
    LET text == getText(content)
        names(st) == {n.name : n \in {m \in Range(st.named) : aliased \/ m.alias = NoName}}
                         \cup {st.def, st.ns}
    IN  {name \in UNION {names(st) : st \in Range(ImportsOf(content))} :
            name # NoName /\ Occurrences(name, text) <= 1}

\* The imports the result lists for filePath, as a set; no file has two entries.
ListedImports(result, filePath) ==
    UNION {Range(entry.imports) : entry \in Range(EntryFor(result.unusedImports, filePath))}

\* C12 as it stands: for every analysed file the unused-imports result lists
\* exactly the named, default and namespace import bindings whose name occurs
\* as a whole word at most once in the text of the file, and a file without
\* such a binding has no entry.
C12_AllRareBindingsListed ==
    \A i \in LatestRun :
        \A f \in DOMAIN log[i].analysed :
            /\ ListedImports(log[i].result, f) = RarelyNamedBindings(log[i].analysed[f], TRUE)
            /\ Len(EntryFor(log[i].result.unusedImports, f))
                  = (IF RarelyNamedBindings(log[i].analysed[f], TRUE) = {} THEN 0 ELSE 1)

\* C12 (amended): for every analysed file the unused-imports result lists
\* exactly the named imports without alias, the default imports and the
\* namespace imports whose name occurs as a whole word at most once in the
\* text of the file; a named import with an alias is never examined; a file
\* without such a binding has no entry, another has one, and only analysed
\* files have entries.
C12_UnaliasedRareBindingsListed ==
    \A i \in LatestRun :
        /\ \A f \in DOMAIN log[i].analysed :
              /\ ListedImports(log[i].result, f)
                    = RarelyNamedBindings(log[i].analysed[f], FALSE)
              /\ Len(EntryFor(log[i].result.unusedImports, f))
                    = (IF RarelyNamedBindings(log[i].analysed[f], FALSE) = {} THEN 0 ELSE 1)
        /\ \A k \in 1..Len(log[i].result.unusedImports) :
              log[i].result.unusedImports[k].file \in DOMAIN log[i].analysed

\* A run that lists an unused default import of a file and passes over a
\* named import of that file that has an alias and occurs once, and lists an
\* unused namespace import of another file and an unused named import.
C12_Witness ==
    \E i \in DOMAIN log :
        /\ \E f \in DOMAIN log[i].analysed :
              \E st \in Range(ImportsOf(log[i].analysed[f])) :
                  /\ st.def # NoName /\ st.def \in ListedImports(log[i].result, f)
                  /\ \E n \in Range(st.named) :
                        /\ n.alias # NoName
                        /\ Occurrences(n.name, getText(log[i].analysed[f])) <= 1
                        /\ n.name \notin ListedImports(log[i].result, f)
        /\ \E f \in DOMAIN log[i].analysed :
              \E st \in Range(ImportsOf(log[i].analysed[f])) :
                  st.ns # NoName /\ st.ns \in ListedImports(log[i].result, f)
        /\ \E f \in DOMAIN log[i].analysed :
              \E st \in Range(ImportsOf(log[i].analysed[f])) :
                  \E n \in Range(st.named) : n.name \in ListedImports(log[i].result, f)

----------------------------------------------------------------------------
(* C13 *)

\* The named and default bindings of the import declarations of a file.
ImportBindings(content) ==
    UNION {{n.name : n \in Range(st.named)} \cup ({st.def} \ {NoName}) :
              st \in Range(ImportsOf(content))}

\* An import declaration with named or default imports, all of them listed.
AllBindingsUnused(st, unused) ==
    /\ st.ns = NoName
    /\ st.named # <<>> \/ st.def # NoName
    /\ \A n \in Range(st.named) : n.name \in unused
    /\ st.def # NoName => st.def \in unused

\* C13: in apply mode, import removal takes away only the bindings listed as
\* unused for the file: every named or default binding that is not listed is
\* still imported by the source file after clean(), and the import statements
\* the file is left with are those that had a binding that is not listed - a
\* statement is removed entirely exactly when all of its named and default
\* imports are listed.
C13_ImportStatementsRemovedWhenEmpty ==
    \A i \in LatestRun :
        (~options.dryRun /\ options.removeUnused) =>
            \A f \in DOMAIN log[i].analysed :
                LET unused == ListedImports(log[i].result, f)
                    before == ImportsOf(log[i].analysed[f])
                    after  == ImportsOf(log[i].project[f])
                    kept   == SelectSeq(before, LAMBDA st : ~AllBindingsUnused(st, unused))
                IN  /\ ImportBindings(log[i].analysed[f]) \ unused
                          \subseteq ImportBindings(log[i].project[f])
                    /\ Len(after) = Len(kept)
                    /\ \A k \in 1..Len(kept) : after[k].spec = kept[k].spec

----------------------------------------------------------------------------
(* C14 *)

\* The variables a file declares, and its functions and methods under the
\* names the analysis lists them by (ClassName.methodName for a method).
DeclaredVariables(content) ==
    {st.name : st \in {s \in Range(content) : s.kind = "var"}}

DeclaredFunctions(content) ==
    {st.name : st \in {s \in Range(content) : s.kind = "func"}}
        \cup UNION {{st.name \o <<".">> \o m.name : m \in Range(st.methods)} :
                       st \in {s \in Range(content) : s.kind = "class"}}

\* C14: in apply mode with deep scrub, every variable, function and method
\* (listed as ClassName.methodName) that the result lists as unused for a
\* file is no longer declared in that source file after clean().
C14_ListedDeclarationsAreRemoved ==
    \A i \in LatestRun :
        (~options.dryRun /\ options.removeUnused /\ options.deepScrub) =>
            \A f \in DOMAIN log[i].analysed :
                /\ \A e \in Range(EntryFor(log[i].result.unusedVariables, f)) :
                      Range(e.variables) \cap DeclaredVariables(log[i].project[f]) = {}
                /\ \A e \in Range(EntryFor(log[i].result.unusedFunctions, f)) :
                      Range(e.functions) \cap DeclaredFunctions(log[i].project[f]) = {}

----------------------------------------------------------------------------
(* C15 *)

\* The source files from which the run removed a declaration.
ChangedInMemory(run) ==
    {f \in DOMAIN run.analysed : run.project[f] # run.analysed[f]}

\* C15: a path is in modifiedFiles exactly when this run removed an import,
\* variable or function declaration from the source file and its save
\* succeeded; a saved file holds on disk what the source file holds in
\* memory, a file that is not in modifiedFiles is not written, and a file
\* whose save throws is left out while the others are still saved.
C15_ModifiedIffRemovedAndSaved ==
    \A i \in LatestRun :
        LET run      == log[i]
            modified == Range(run.result.modifiedFiles)
        IN  /\ modified = ChangedInMemory(run) \ run.saveFail
            /\ run.saveFail \cap modified = {}
            /\ \A f \in modified \cap DOMAIN run.after : run.after[f] = run.project[f]
            /\ \A f \in (DOMAIN run.after) \ modified :
                  f \in DOMAIN run.before /\ run.after[f] = run.before[f]

\* A run in which one save threw and another file was saved, while a file
\* with a listed import that is never removed was not written.
C15_Witness ==
    \E i \in DOMAIN log :
        /\ log[i].saveFail # {}
        /\ log[i].result.modifiedFiles # <<>>
        /\ \E f \in DOMAIN log[i].analysed :
              /\ ListedImports(log[i].result, f) # {}
              /\ f \notin Range(log[i].result.modifiedFiles)
              /\ f \notin log[i].saveFail
              /\ f \in DOMAIN log[i].after

----------------------------------------------------------------------------
(* C16 *)

\* C16: a throw while rewriting, saving or deleting one file does not keep
\* clean() from the other files of the run: in apply mode every source file
\* whose removals did not throw is rewritten as the result asks, every
\* rewritten file whose save did not throw is saved and listed, and with deep
\* scrub every unused file whose removal did not throw is deleted and listed;
\* the run ends with its result whatever threw.
C16_FailuresDoNotStopTheRun ==
    \A i \in LatestRun :
        LET run == log[i]
        IN  (~options.dryRun /\ options.removeUnused) =>
                /\ \A f \in (DOMAIN run.analysed) \ run.rwFail :
                      run.project[f] =
                          CleanSourceFile(run.analysed[f], f, options,
                                          run.result.unusedImports,
                                          run.result.unusedVariables,
                                          run.result.unusedFunctions)
                /\ \A f \in ChangedInMemory(run) \ run.saveFail :
                      /\ f \in Range(run.result.modifiedFiles)
                      /\ f \in DOMAIN run.after => run.after[f] = run.project[f]
                /\ options.deepScrub =>
                      \A f \in Range(run.result.unusedFiles) \ run.rmFail :
                          /\ f \in Range(run.result.deletedFiles)
                          /\ f \notin DOMAIN run.after

\* A run in which the removal of an unused file threw, a file that comes
\* after it in unusedFiles was deleted all the same, and a source file was
\* saved.
C16_Witness ==
    \E i \in DOMAIN log :
        LET unused == log[i].result.unusedFiles
        IN  /\ log[i].result.modifiedFiles # <<>>
            /\ \E j, k \in 1..Len(unused) :
                  /\ j < k
                  /\ unused[j] \in log[i].rmFail
                  /\ unused[k] \in Range(log[i].result.deletedFiles)
                  /\ unused[k] \in DOMAIN log[i].before
                  /\ unused[k] \notin DOMAIN log[i].after

----------------------------------------------------------------------------
(* C17 *)

\* C17: when the read of one source file throws during the load, only that
\* file is skipped: every other file the loader finds is loaded and analysed
\* in the same run, a new Cleaner analysing it as it is on disk, and its
\* unused imports are listed as if the failing file were absent.
C17_OnlyTheFailingUnitIsSkipped ==
    \A i \in LatestRun :
        LET run == log[i]
        IN  \A f \in Glob(run.before) \ run.loadFail :
                /\ f \in DOMAIN run.analysed
                /\ run.fresh =>
                      /\ run.analysed[f] = run.before[f]
                      /\ ListedImports(run.result, f)
                            = RarelyNamedBindings(run.before[f], FALSE)

----------------------------------------------------------------------------
(* C18 *)

\* C18: when the target directory does not exist the command ends at its
\* directory check with exit status 1: no cleanup module is started, no
\* Cleaner is constructed, no clean() runs and the file system is untouched.
C18_MissingDirectoryAborts ==
    (cli.targetDir = MissingDir /\ cli.pc # "start") =>
        /\ cli.pc = "exited"
        /\ cli.exitCode = 1
        /\ cli.started = <<>>
        /\ cli.errors = <<"Directory not found">>
        /\ cleaner = "none" /\ project = <<>> /\ log = <<>>
        /\ ~ ENABLED CliNext

C18_Witness ==
    /\ cli.targetDir = MissingDir
    /\ cli.pc = "exited"
    /\ cli.flags.removeUnused /\ cli.flags.deepScrub /\ ~cli.flags.dryRun
    /\ disk # <<>>

----------------------------------------------------------------------------
(* C19 *)

\* C19: in a project without package.json the dependency audit alone is
\* given up: audit() returns the empty result and logs its failure, the
\* Cleaner has run before it with an empty set of entry points, every later
\* module still runs and the command ends with status 0.
C19_MissingManifestOnlyStopsTheAudit ==
    (manifest = <<>> /\ cli.targetDir = TargetDir) =>
        /\ cli.pc = "modules" =>
              Runs(<<>>, disk, manifest, CleanerOptions(cli.flags), MaxFailures) # {}
        /\ cli.pc = "done" =>
              /\ cli.exitCode = 0
              /\ Len(log) = 1 /\ Head(cli.started) = "Cleaner"
              /\ EntryPoints(manifest) = {}
              /\ log[1].result.unusedFiles
                    = (IF cli.flags.deepScrub
                       THEN findUnusedFiles(log[1].analysed, log[1].before, <<>>)
                       ELSE <<>>)
              /\ (cli.flags.analyzeDependencies \/ cli.flags.deepScrub) =>
                    /\ "DependencyAuditor" \in Range(cli.started)
                    /\ cli.dependencyResult = <<EmptyAuditResult>>
                    /\ cli.errors = <<"Dependency audit failed">>
              /\ (cli.flags.checkCircular \/ cli.flags.deepScrub) =>
                    cli.started[Len(cli.started)] = "CircularDependencyScanner"

C19_Witness ==
    /\ manifest = <<>>
    /\ cli.pc = "done"
    /\ "DependencyAuditor" \in Range(cli.started)
    /\ log[1].result.unusedFiles # <<>>
    /\ log[1].result.unusedImports # <<>>

----------------------------------------------------------------------------
(* C20 *)

\* The files a clean() call skipped because an operation on them threw: the
\* files the aborted load left out, the files whose rewrite, save or removal
\* threw, and the package.json that findEntryPoints could not parse.
SkippedByError(run) ==
    {[kind |-> "load", file |-> f] : f \in Glob(run.before) \ DOMAIN run.analysed}
    \cup {[kind |-> "rewrite", file |-> f] : f \in run.rwFail}
    \cup {[kind |-> "save", file |-> f] : f \in run.saveFail}
    \cup {[kind |-> "remove", file |-> f] : f \in run.rmFail}
    \cup (IF DeepAnalysis(options) /\ manifest # <<>> /\ ~manifest[1].parses
          THEN {[kind |-> "manifest", file |-> Join(TargetDir, <<"p","a","c","k","a","g","e",".","j","s","o","n">>)]}
          ELSE {})

\* C20: no silent drop: every file that a clean() call skips because an
\* operation on it threw is named by an error the call logs, whatever the
\* verbose option is.
C20_NoSilentDrop ==
    \A i \in LatestRun : SkippedByError(log[i]) \subseteq LoggedErrors(log[i])

----------------------------------------------------------------------------
(* C21 *)

\* The names the result lists as unused variables / functions of a file.
ListedVariables(result, filePath) ==
    UNION {Range(entry.variables) : entry \in Range(EntryFor(result.unusedVariables, filePath))}

ListedFunctions(result, filePath) ==
    UNION {Range(entry.functions) : entry \in Range(EntryFor(result.unusedFunctions, filePath))}

\* The names under which an exported declaration could be listed: the name
\* of an exported variable or function, and for an exported class both
\* ClassName.methodName and the bare methodName of each of its methods.
ExportedNames(content) ==
    {st.name : st \in {s \in Range(content) : s.kind \in {"var", "func"} /\ s.exported}}
        \cup UNION {{st.name \o <<".">> \o m.name : m \in Range(st.methods)}
                        \cup {m.name : m \in Range(st.methods)} :
                       st \in {s \in Range(content) : s.kind = "class" /\ s.exported}}

\* C21: no exported variable, exported function or method of an exported
\* class is listed as unused for its file, however few times its name occurs
\* in the text of the file.
C21_ExportedNeverReported ==
    \A i \in LatestRun :
        \A f \in DOMAIN log[i].analysed :
            /\ ListedVariables(log[i].result, f) \cap ExportedNames(log[i].analysed[f]) = {}
            /\ ListedFunctions(log[i].result, f) \cap ExportedNames(log[i].analysed[f]) = {}

\* A deep-scrub run that lists an unused variable and an unused function and
\* analysed an exported variable, an exported function and a method of an
\* exported class whose names occur once in their file.
C21_Witness ==
    \E i \in DOMAIN log :
        /\ log[i].result.unusedVariables # <<>>
        /\ log[i].result.unusedFunctions # <<>>
        /\ \A kind \in {"var", "func"} :
              \E f \in DOMAIN log[i].analysed :
                  \E st \in Range(log[i].analysed[f]) :
                      /\ st.kind = kind /\ st.exported
                      /\ Occurrences(st.name, getText(log[i].analysed[f])) = 1
        /\ \E f \in DOMAIN log[i].analysed :
              \E st \in Range(log[i].analysed[f]) :
                  /\ st.kind = "class" /\ st.exported
                  /\ \E m \in Range(st.methods) :
                        Occurrences(m.name, getText(log[i].analysed[f])) = 1

----------------------------------------------------------------------------
(* C22 *)

\* A method that is private, an accessor or the constructor.
IsSpecialMethod(m) ==
    m.modifier \in {"private", "get", "set"} \/ m.name = <<"c","o","n","s","t","r","u","c","t","o","r">>

\* The names of the variables of a file that are destructuring patterns or
\* declared by a loop, and of the methods that are private, accessors or
\* constructors (bare and as ClassName.methodName).
SpecialNames(content) ==
    {st.name : st \in {s \in Range(content) :
                          /\ s.kind = "var"
                          /\ (s.inLoop \/ Includes(s.name, <<"{">>) \/ Includes(s.name, <<"[">>))}}
        \cup UNION {{st.name \o <<".">> \o m.name :
                         m \in {n \in Range(st.methods) : IsSpecialMethod(n)}}
                        \cup {m.name : m \in {n \in Range(st.methods) : IsSpecialMethod(n)}} :
                       st \in {s \in Range(content) : s.kind = "class"}}

\* The special declarations of a file, as they stand in it.
SpecialDeclarations(content) ==
    {st \in Range(content) :
        /\ st.kind = "var"
        /\ (st.inLoop \/ Includes(st.name, <<"{">>) \/ Includes(st.name, <<"[">>))}
        \cup UNION {{[class |-> st.name, method |-> m] :
                         m \in {n \in Range(st.methods) : IsSpecialMethod(n)}} :
                       st \in {s \in Range(content) : s.kind = "class"}}

\* C22: destructured variables, loop variables and private methods,
\* accessors and constructors are never listed as unused, and every one of
\* them that clean() analysed is still declared in the source file after it.
C22_SpecialDeclarationsAreKept ==
    \A i \in LatestRun :
        \A f \in DOMAIN log[i].analysed :
            /\ ListedVariables(log[i].result, f) \cap SpecialNames(log[i].analysed[f]) = {}
            /\ ListedFunctions(log[i].result, f) \cap SpecialNames(log[i].analysed[f]) = {}
            /\ SpecialDeclarations(log[i].analysed[f])
                  \subseteq SpecialDeclarations(log[i].project[f])

\* An apply run with deep scrub that rewrote a file holding a destructured
\* variable and a loop variable, and analysed a class with a private method,
\* a getter and a constructor, each name occurring once in its file.
C22_Witness ==
    \E i \in DOMAIN log :
        /\ ~options.dryRun /\ options.removeUnused /\ options.deepScrub
        /\ \E f \in DOMAIN log[i].analysed :
              /\ log[i].project[f] # log[i].analysed[f]
              /\ \E st \in Range(log[i].analysed[f]) : st.kind = "var" /\ st.inLoop
              /\ \E st \in Range(log[i].analysed[f]) :
                    st.kind = "var" /\ Includes(st.name, <<"{">>)
        /\ \E f \in DOMAIN log[i].analysed :
              \E st \in Range(log[i].analysed[f]) :
                  /\ st.kind = "class"
                  /\ \A mod \in {"private", "get"} :
                        \E m \in Range(st.methods) :
                            /\ m.modifier = mod
                            /\ Occurrences(m.name, getText(log[i].analysed[f])) = 1
                  /\ \E m \in Range(st.methods) : m.name = <<"c","o","n","s","t","r","u","c","t","o","r">>

----------------------------------------------------------------------------
(* C23 *)

\* C23: a clean() call that follows an apply works on the files as they are
\* on disk when it starts, also on the same Cleaner: it analyses exactly the
\* source files that exist, each with the content it has on disk, and a file
\* the earlier call deleted is neither analysed nor listed in unusedFiles or
\* deletedFiles again.
C23_RerunUsesCurrentContents ==
    \A i \in LatestRun :
        (i > 1 /\ log[i].loadFail = {}) =>
            /\ DOMAIN log[i].analysed = Glob(log[i].before)
            /\ \A f \in DOMAIN log[i].analysed : log[i].analysed[f] = log[i].before[f]
            /\ \A f \in Range(log[i - 1].result.deletedFiles) :
                  /\ f \notin DOMAIN log[i].analysed
                  /\ f \notin Range(log[i].result.unusedFiles)
                  /\ f \notin Range(log[i].result.deletedFiles)

----------------------------------------------------------------------------
(* C24 *)

\* The class names of a stylesheet file that the result lists as unused.
ListedSelectors(result, file) ==
    UNION {Range(entry.selectors) :
              entry \in {e \in Range(result.unusedSelectors) : e.file = file}}

\* C24: a class that a source file names through a class-list pattern is
\* listed in unusedSelectors for no stylesheet, and every rule that holds it
\* as a class selector is still in its stylesheet after clean(), also when
\* several rules or several stylesheets define the class.
C24_ReferencedClassesAreKept ==
    \A i \in DOMAIN style.runs :
        \A c \in MatchedClasses(style.texts[ComponentFile]) :
            \A file \in DOMAIN style.runs[i].before :
                /\ c \notin ListedSelectors(style.runs[i].result, file)
                /\ \A rule \in Range(style.runs[i].before[file].rules) :
                      c \in Range(ClassSelectors(rule.selectors))
                          => rule \in Range(style.runs[i].after[file].rules)

----------------------------------------------------------------------------
(* C25 *)

\* A selector that is one class selector and nothing else.
IsClassSelector(selector) == Len(selector) = 1 /\ selector[1].type = "class"

\* C25: in apply mode a rule is dropped from its stylesheet if and only if
\* every selector of its selector list is a class selector that the result
\* lists as unused for the stylesheet; every other rule is kept as it was.
C25_DroppedIffAllSelectorsUnused ==
    \A i \in DOMAIN style.runs :
        StyleApplies(style.options) =>
            \A file \in DOMAIN style.runs[i].before :
                \A rule \in Range(style.runs[i].before[file].rules) :
                    (rule \notin Range(style.runs[i].after[file].rules))
                    <=> (\A s \in 1..Len(rule.selectors) :
                            /\ IsClassSelector(rule.selectors[s])
                            /\ rule.selectors[s][1].name
                                  \in ListedSelectors(style.runs[i].result, file))

----------------------------------------------------------------------------
(* C26 *)

\* A stylesheet file none of whose class selectors the run found unused.
ZeroUnused(run, file) ==
    \A d \in 1..Len(run.result.styleDefinitions) :
        run.result.styleDefinitions[d].file = file
            => \A k \in 1..Len(run.result.styleDefinitions[d].selectors) :
                   run.result.styleDefinitions[d].selectors[k].used

\* The length clean() removes from the stylesheets that have an unused
\* selector.
RemovedFromOthers(run) ==
    SumSeq([k \in 1..Len(StyleFiles) |->
               IF StyleFiles[k] \in DOMAIN run.before /\ ~ZeroUnused(run, StyleFiles[k])
               THEN Length(run.before[StyleFiles[k]])
                        - Length(CleanedContent(run.before[StyleFiles[k]],
                              SelectSeq(<<"header", "footer", "unused-class">>,
                                  LAMBDA c : c \in ListedSelectors(run.result, StyleFiles[k]))))
               ELSE 0])

\* C26: in apply mode a stylesheet with no unused selector is the same on
\* disk after clean() as before it, is not in modifiedFiles and adds nothing
\* to bytesRemoved.
C26_NoUnusedSelectorNoChange ==
    \A i \in DOMAIN style.runs :
        StyleApplies(style.options) =>
            /\ \A file \in DOMAIN style.runs[i].before :
                  ZeroUnused(style.runs[i], file) =>
                      /\ style.runs[i].after[file] = style.runs[i].before[file]
                      /\ file \notin Range(style.runs[i].result.modifiedFiles)
            /\ style.runs[i].result.bytesRemoved = RemovedFromOthers(style.runs[i])

\* An apply run that rewrote one stylesheet and left alone another one that
\* has no unused selector and whose text is not in generated form.
C26_Witness ==
    \E i \in DOMAIN style.runs :
        /\ StyleApplies(style.options)
        /\ style.runs[i].result.modifiedFiles # <<>>
        /\ style.runs[i].result.bytesRemoved > 0
        /\ \E file \in DOMAIN style.runs[i].before :
              /\ ZeroUnused(style.runs[i], file)
              /\ style.runs[i].before[file].pretty
              /\ style.runs[i].before[file].rules # <<>>

----------------------------------------------------------------------------
(* C27 *)

\* C27: clean() changes a stylesheet only when dryRun is false and
\* removeUnused is true; in every other combination the stylesheets stay as
\* they are, modifiedFiles is empty and bytesRemoved is 0, and the result
\* lists the unused selectors an apply run on the same files lists.
C27_StyleWritesNeedApply ==
    \A i \in DOMAIN style.runs :
        ~(~style.options.dryRun /\ style.options.removeUnused) =>
            /\ style.runs[i].after = style.runs[i].before
            /\ style.runs[i].result.modifiedFiles = <<>>
            /\ style.runs[i].result.bytesRemoved = 0
            /\ style.runs[i].result.unusedSelectors
                  = StyleCleaner_clean(style.runs[i].before, style.texts,
                        [style.options EXCEPT !.dryRun = FALSE, !.removeUnused = TRUE]
                    ).result.unusedSelectors

\* A dry run with removeUnused set that found an unused selector in a
\* stylesheet an apply run would rewrite.
C27_Witness ==
    \E i \in DOMAIN style.runs :
        /\ style.options.dryRun /\ style.options.removeUnused
        /\ style.runs[i].result.totalUnusedSelectors > 0
        /\ StyleCleaner_clean(style.runs[i].before, style.texts,
               [style.options EXCEPT !.dryRun = FALSE, !.removeUnused = TRUE]
           ).result.modifiedFiles # <<>>

\* The assets a sweep reported as unused.
SweepUnused(run) ==
    Range(run.result.unusedImages) \cup Range(run.result.unusedFonts)
        \cup Range(run.result.unusedStyles)

\* An asset in a directory static, public or assets, or named global.css.
ProtectedByName(path) ==
    \/ Basename(path) = <<"g","l","o","b","a","l",".","c","s","s">>
    \/ \E k \in 1..(Len(path) - 1) : path[k] \in {<<"s","t","a","t","i","c">>, <<"p","u","b","l","i","c">>, <<"a","s","s","e","t","s">>}

\* C28: sweep() removes an asset from disk only if deleteUnused is set,
\* dryRun is not, the asset was found unreferenced in this run and it is
\* not protected; deletedAssets lists exactly the removed assets, once
\* each; with dryRun set or deleteUnused unset it is empty and every asset
\* still exists.
C28_AssetsRemovedOnlyWhenAllowed ==
    \A i \in 1..Len(sweeper.runs) :
        LET run == sweeper.runs[i]
            removed == run.before \ run.after
            deleted == run.result.deletedAssets
        IN  /\ run.after \subseteq run.before
            /\ \A a \in removed :
                  /\ sweeper.options.deleteUnused
                  /\ ~sweeper.options.dryRun
                  /\ a \in SweepUnused(run)
                  /\ ~isAssetReferenced(a, SourceContents(run.before, sweeper.appText))
                  /\ ~ProtectedByName(a)
            /\ Range(deleted) = removed
            /\ Len(deleted) = Cardinality(removed)
            /\ (sweeper.options.dryRun \/ ~sweeper.options.deleteUnused)
                  => deleted = <<>> /\ run.after = run.before

\* A sweep removed an asset, kept an unused global.css and kept an unused
\* asset whose removal threw.
C28_Witness ==
    \E i \in 1..Len(sweeper.runs) :
        LET run == sweeper.runs[i]
        IN  /\ run.before \ run.after # {}
            /\ \E a \in SweepUnused(run) : ProtectedByName(a) /\ a \in run.after
            /\ \E a \in SweepUnused(run) : a \in run.rmFail /\ a \in run.after

\* C29: if the user cancels the interactive prompts, no cleanup module
\* runs and no file is modified or deleted, whatever was answered before.
C29_CancelRunsNothing ==
    cli.cancelled => /\ cli.started = <<>>
                     /\ log = <<>>
                     /\ cli.pc # "done"

\* C30: every interval timer that startProgress starts is eventually
\* cleared, so no progress timer keeps firing forever.
C30_EveryTimerIsEventuallyCleared ==
    \A t \in 1..MaxTimers : (t \in logger.timers) ~> (t \notin logger.timers)

====
